---- MODULE Spec2Model ----
(***************************************************************************)
(* Folder hierarchy engine and file record engine of odin-file-uploader:   *)
(* services/folderService.js and services/fileService.js over the          *)
(* PostgreSQL schema of prisma/schema.prisma and the Cloudinary blob       *)
(* store.                                                                  *)
(*                                                                         *)
(* Names and paths are sequences of one-character strings, so that         *)
(* split("/"), trim() and the name regexes are computed, not assumed.      *)
(* A uuid is a number taken from a counter that never hands out the same   *)
(* value twice; 0 stands for null.  The users table is the sequence of its  *)
(* rows in the order of their insertion.                                    *)
(***************************************************************************)
EXTENDS Integers, Sequences, FiniteSets, TLC

VARIABLES users, folders, files, blobs, uploads, nextFolderId, nextFileId, nextBlobId, procs,
          last

vars == <<users, folders, files, blobs, uploads, nextFolderId, nextFileId, nextBlobId, procs, last>>

\* ------------------------------------------------------------------ bounds
MaxFolders == 3
MaxFiles == 2
MaxBlobs == 2
MaxBatch == 2
MaxEngineFolders == 2
MaxPosted == 3
MaxUsers == 2

\* ------------------------------------------------------------- input sets
Users == {"u1", "u2"}
Null == 0
\* a JavaScript value whose typeof is not "string" (a number, an object, ...),
\* handed in where a user id or a folder id is expected
NotAStringUserId == "<number>"
NotAStringId == -1
FolderIds == 1..MaxFolders
FileIds == 1..MaxFiles
ProcIds == {1}

nA == <<"a">>
nB == <<"b">>
nX == <<"x">>
nY == <<"y">>
nEmpty == <<>>
nPadA == <<" ", "a">>
nSlash == <<"a", "/", "b">>

\* ------------------------------------------------------- string functions
Whitespace == {" "}
FolderNameChars == {"a", "b", "x", "y", "0", "-", "_", " "}
FileNameChars == FolderNameChars \cup {"."}

RECURSIVE TrimStart(_)
TrimStart(s) ==
    IF s # <<>> /\ Head(s) \in Whitespace THEN TrimStart(Tail(s)) ELSE s

RECURSIVE TrimEnd(_)
TrimEnd(s) ==
    IF s # <<>> /\ s[Len(s)] \in Whitespace
    THEN TrimEnd(SubSeq(s, 1, Len(s) - 1)) ELSE s

Trim(s) == TrimEnd(TrimStart(s))

\* /^[a-zA-Z0-9-_ ]+$/
FolderNameRegexTest(s) == s # <<>> /\ \A i \in 1..Len(s) : s[i] \in FolderNameChars

\* /^[a-zA-Z0-9-_ .]+$/
FileNameRegexTest(s) == s # <<>> /\ \A i \in 1..Len(s) : s[i] \in FileNameChars

\* String.prototype.split("/"): always at least one segment, empty segments kept
RECURSIVE SplitFrom(_, _)
SplitFrom(s, cur) ==
    IF s = <<>> THEN <<cur>>
    ELSE IF Head(s) = "/" THEN <<cur>> \o SplitFrom(Tail(s), <<>>)
    ELSE SplitFrom(Tail(s), Append(cur, Head(s)))

Split(path) == SplitFrom(path, <<>>)

\* String.prototype.endsWith(t)
EndsWith(s, t) == Len(s) >= Len(t) /\ SubSeq(s, Len(s) - Len(t) + 1, Len(s)) = t

\* String.prototype.slice(0, -k)
SliceOffEnd(s, k) == IF Len(s) > k THEN SubSeq(s, 1, Len(s) - k) ELSE <<>>

\* ------------------------------------------------------------ result kinds
\* String.prototype.replace with a string pattern: the first occurrence only
IndexOf(s, pat) ==
    LET at == {i \in 1..(Len(s) + 1 - Len(pat)) : SubSeq(s, i, i + Len(pat) - 1) = pat}
    IN  IF at = {} THEN 0 ELSE CHOOSE i \in at : \A j \in at : i <= j

Replace(s, pat, new) ==
    IF IndexOf(s, pat) = 0
    THEN s
    ELSE SubSeq(s, 1, IndexOf(s, pat) - 1) \o new
         \o SubSeq(s, IndexOf(s, pat) + Len(pat), Len(s))

Result(op, kind, msg, val, args) ==
    [op |-> op, kind |-> kind, msg |-> msg, val |-> val, args |-> args]

IdleProc ==
    [pc |-> "idle", op |-> "none", id |-> 0, userId |-> "", ids |-> {}, batch |-> {}, calls |-> 0,
     args |-> <<>>]

\* utils/prismaErrorHandler.js: the error an engine throws for a store error code
HandlePrismaError(code) ==
    IF code = "ValidationError" THEN [kind |-> "ValidationError", msg |-> "invalid"]
    ELSE IF code = "NotFoundError" THEN [kind |-> "NotFoundError", msg |-> "not found"]
    ELSE IF code = "P2002" THEN [kind |-> "ValidationError", msg |-> "unique"]
    ELSE IF code = "P1001" THEN [kind |-> "DatabaseError", msg |-> "connect"]
    ELSE IF code = "P1002" THEN [kind |-> "DatabaseError", msg |-> "timeout"]
    ELSE [kind |-> "DatabaseError", msg |-> "unexpected"]

Thrown(op, code, args) ==
    Result(op, HandlePrismaError(code).kind, HandlePrismaError(code).msg, 0, args)

\* the Conflict kind of the specification is the ValidationError that
\* handlePrismaError builds for P2002
IsConflict(r) == r.kind = "ValidationError" /\ r.msg = "unique"

\* --------------------------------------------------------- relational store
\* mutant: the index counts the row being updated as its own rival
FolderUniqueViolationMut(rows, id, name, userId, parentFolderId) ==
    /\ parentFolderId # Null
    /\ \E f \in rows : /\ f.name = name
                       /\ f.userId = userId
                       /\ f.parentFolderId = parentFolderId

\* folders_name_user_id_parent_folder_id_key: a PostgreSQL unique index treats
\* NULLs as distinct, so a row with parent_folder_id NULL never conflicts
FolderUniqueViolation(rows, id, name, userId, parentFolderId) ==
    /\ parentFolderId # Null
    /\ \E f \in rows : /\ f.id # id
                       /\ f.name = name
                       /\ f.userId = userId
                       /\ f.parentFolderId = parentFolderId

\* mutant: no foreign key on parent_folder_id
FolderFkViolationMut(rows, parentFolderId) == FALSE

\* folders_parent_folder_id_fkey
FolderFkViolation(rows, parentFolderId) ==
    parentFolderId # Null /\ ~ \E f \in rows : f.id = parentFolderId

\* validUserIdCheck: !userId || typeof userId !== "string"
ValidUserId(userId) == userId # "" /\ userId # NotAStringUserId

\* parentFolderId !== null && typeof parentFolderId !== "string"
ValidParentFolderId(parentFolderId) == parentFolderId = Null \/ parentFolderId # NotAStringId

\* ---------------------------------------------------------------- createFolder
\* the call as its caller sees it: the folder table and the result
CreateFolderCall(userId, folderName, parentFolderId) ==
    LET args == <<>>
        row == [id |-> nextFolderId, name |-> folderName, userId |-> userId,
                parentFolderId |-> parentFolderId]
    IN     IF ~ ValidUserId(userId) \/ folderName = <<>> \/ ~ ValidParentFolderId(parentFolderId)
           THEN /\ last' = Thrown("createFolder", "ValidationError", args)
                /\ UNCHANGED <<folders, nextFolderId>>
           ELSE IF FolderFkViolation(folders, parentFolderId)
           THEN /\ last' = Thrown("createFolder", "P2003", args)
                /\ UNCHANGED <<folders, nextFolderId>>
           ELSE IF FolderUniqueViolation(folders, nextFolderId, folderName, userId, parentFolderId)
           THEN /\ last' = Thrown("createFolder", "P2002", args)
                /\ UNCHANGED <<folders, nextFolderId>>
           ELSE /\ nextFolderId <= MaxFolders
                /\ folders' = folders \cup {row}
                /\ nextFolderId' = nextFolderId + 1
                /\ last' = Result("createFolder", "ok", "", row.id, args)

CreateFolder(userId, folderName, parentFolderId) ==
    /\ CreateFolderCall(userId, folderName, parentFolderId)
    /\ UNCHANGED <<users, files, blobs, uploads, nextFileId, nextBlobId, procs>>

\* ------------------------------------------------------------ renameFolderById
\* mutant: the row is written before the character test is made
RenameFolderByIdMut(folderId, userId, newFolderName) ==
    /\ LET rows == {f \in folders : f.id = folderId /\ f.userId = userId}
       IN  IF ~ ValidUserId(userId) \/ newFolderName = <<>> \/ Trim(newFolderName) = <<>>
           THEN /\ last' = Thrown("renameFolderById", "ValidationError", <<>>)
                /\ UNCHANGED folders
           ELSE IF rows = {}
           THEN /\ last' = Thrown("renameFolderById", "P2025", <<>>)
                /\ UNCHANGED folders
           ELSE LET old == CHOOSE f \in rows : TRUE
                    new == [old EXCEPT !.name = Trim(newFolderName)]
                IN  IF FolderUniqueViolation(folders, old.id, new.name, new.userId, new.parentFolderId)
                    THEN /\ last' = Thrown("renameFolderById", "P2002", <<>>)
                         /\ UNCHANGED folders
                    ELSE /\ folders' = (folders \ {old}) \cup {new}
                         /\ last' = IF FolderNameRegexTest(newFolderName)
                                    THEN Result("renameFolderById", "ok", "", old.id, <<>>)
                                    ELSE Thrown("renameFolderById", "ValidationError", <<>>)
    /\ UNCHANGED <<users, files, blobs, uploads, nextFolderId, nextFileId, nextBlobId, procs>>

\* mutant: the update also takes the folder out of its parent
RenameFolderByIdReparentMut(folderId, userId, newFolderName) ==
    /\ LET args == <<>>
           rows == {f \in folders : f.id = folderId /\ f.userId = userId}
       IN  IF ~ ValidUserId(userId) \/ newFolderName = <<>> \/ Trim(newFolderName) = <<>>
           THEN /\ last' = Thrown("renameFolderById", "ValidationError", args)
                /\ UNCHANGED folders
           ELSE IF ~ FolderNameRegexTest(newFolderName)
           THEN /\ last' = Thrown("renameFolderById", "ValidationError", args)
                /\ UNCHANGED folders
           ELSE IF rows = {}
           THEN /\ last' = Thrown("renameFolderById", "P2025", args)
                /\ UNCHANGED folders
           ELSE LET old == CHOOSE f \in rows : TRUE
                    new == [old EXCEPT !.name = Trim(newFolderName), !.parentFolderId = Null]
                IN  IF FolderUniqueViolation(folders, old.id, new.name, new.userId, new.parentFolderId)
                    THEN /\ last' = Thrown("renameFolderById", "P2002", args)
                         /\ UNCHANGED folders
                    ELSE /\ folders' = (folders \ {old}) \cup {new}
                         /\ last' = Result("renameFolderById", "ok", "", old.id, args)
    /\ UNCHANGED <<users, files, blobs, uploads, nextFolderId, nextFileId, nextBlobId, procs>>

\* prisma.folder.update({where: {id, userId}, data: {name}}): P2025 when no row
\* matches, P2002 when the new triple collides with another row
RenameFolderById(folderId, userId, newFolderName) ==
    /\ LET args == <<>>
           rows == {f \in folders : f.id = folderId /\ f.userId = userId}
       IN  IF ~ ValidUserId(userId) \/ newFolderName = <<>> \/ Trim(newFolderName) = <<>>
           THEN /\ last' = Thrown("renameFolderById", "ValidationError", args)
                /\ UNCHANGED folders
           ELSE IF ~ FolderNameRegexTest(newFolderName)
           THEN /\ last' = Thrown("renameFolderById", "ValidationError", args)
                /\ UNCHANGED folders
           ELSE IF rows = {}
           THEN /\ last' = Thrown("renameFolderById", "P2025", args)
                /\ UNCHANGED folders
           ELSE LET old == CHOOSE f \in rows : TRUE
                    new == [old EXCEPT !.name = Trim(newFolderName)]
                IN  IF FolderUniqueViolation(folders, old.id, new.name, new.userId, new.parentFolderId)
                    THEN /\ last' = Thrown("renameFolderById", "P2002", args)
                         /\ UNCHANGED folders
                    ELSE /\ folders' = (folders \ {old}) \cup {new}
                         /\ last' = Result("renameFolderById", "ok", "", old.id, args)
    /\ UNCHANGED <<users, files, blobs, uploads, nextFolderId, nextFileId, nextBlobId, procs>>

\* -------------------------------------------------------------- getFolderByPath
\* prisma.folder.findFirst has no orderBy: when several rows match, the store
\* may return any of them.  ResolveFrom is the set of values the loop can end
\* with (a folder id, or Null for "return null").
RECURSIVE ResolveFrom(_, _, _, _)
ResolveFrom(rows, userId, folderNames, parentFolderId) ==
    LET matches == {f \in rows : /\ f.userId = userId
                                 /\ f.name = Head(folderNames)
                                 /\ f.parentFolderId = parentFolderId}
    IN  IF matches = {} THEN {Null}
        ELSE IF Len(folderNames) = 1 THEN {f.id : f \in matches}
        ELSE UNION {ResolveFrom(rows, userId, Tail(folderNames), f.id) : f \in matches}

GetFolderByPathResults(rows, userId, folderPath) ==
    ResolveFrom(rows, userId, Split(folderPath), Null)

GetFolderByPath(userId, folderPath) ==
    /\ \E r \in GetFolderByPathResults(folders, userId, folderPath) :
          last' = Result("getFolderByPath", "ok", "", r, <<>>)
    /\ UNCHANGED <<users, folders, files, blobs, uploads, nextFolderId, nextFileId, nextBlobId, procs>>

\* -------------------------------------------------------------- files table
\* mutant: without files_cloud_id_key only the filename triple can collide
FileUniqueViolationMut(rows, id, cloudId, filename, userId, folderId) ==
    /\ folderId # Null
    /\ \E f \in rows : /\ f.id # id
                       /\ f.filename = filename
                       /\ f.userId = userId
                       /\ f.folderId = folderId

\* files_cloud_id_key, files_url_key (the url embeds the public id, so the two
\* collide together) and files_filename_user_id_folder_id_key, whose NULL
\* folder_id never conflicts
FileUniqueViolation(rows, id, cloudId, filename, userId, folderId) ==
    \/ \E f \in rows : f.id # id /\ f.cloudId = cloudId
    \/ /\ folderId # Null
       /\ \E f \in rows : /\ f.id # id
                          /\ f.filename = filename
                          /\ f.userId = userId
                          /\ f.folderId = folderId

\* files_folder_id_fkey
FileFkViolation(folderRows, folderId) ==
    folderId # Null /\ ~ \E f \in folderRows : f.id = folderId

\* prisma.file.createMany({data, skipDuplicates: true}) is one
\* INSERT ... ON CONFLICT DO NOTHING: rows are taken in order, a row that
\* collides with a stored row or with an earlier row of the statement is dropped
RECURSIVE CreateMany(_, _, _)
CreateMany(rows, data, nextId) ==
    IF data = <<>> THEN [rows |-> rows, count |-> 0, nextId |-> nextId]
    ELSE LET d == Head(data)
         IN  IF FileUniqueViolation(rows, nextId, d.cloudId, d.filename, d.userId, d.folderId)
             THEN CreateMany(rows, Tail(data), nextId)
             ELSE LET rest == CreateMany(rows \cup {[id |-> nextId, cloudId |-> d.cloudId,
                                                      filename |-> d.filename, userId |-> d.userId,
                                                      folderId |-> d.folderId]},
                                          Tail(data), nextId + 1)
                  IN  [rest EXCEPT !.count = rest.count + 1]

\* uploads.map(...) of createFiles
UploadData(ups, userId, folderId) ==
    [i \in 1..Len(ups) |-> [cloudId |-> ups[i].public_id, filename |-> ups[i].original_filename,
                            userId |-> userId, folderId |-> folderId]]

\* cloudinary.uploader.upload_stream: the blob store keeps the bytes under a
\* fresh public id and returns the descriptor
UploadBlob(originalName) ==
    /\ nextBlobId <= MaxBlobs
    /\ blobs' = blobs \cup {nextBlobId}
    /\ uploads' = uploads \cup {[public_id |-> nextBlobId, original_filename |-> originalName]}
    /\ nextBlobId' = nextBlobId + 1
    /\ last' = Result("upload", "ok", "", nextBlobId, <<>>)
    /\ UNCHANGED <<users, folders, files, nextFolderId, nextFileId, procs>>

\* ----------------------------------------------------------------- createFiles
\* the call as its caller sees it: the file table and the result
CreateFilesCall(ups, userId, folderId) ==
    LET args == <<ups, userId, folderId>>
        r == CreateMany(files, UploadData(ups, userId, folderId), nextFileId)
    IN     IF ~ ValidUserId(userId)
           THEN /\ last' = Thrown("createFiles", "ValidationError", args)
                /\ UNCHANGED <<files, nextFileId>>
           ELSE IF FileFkViolation(folders, folderId)
           THEN /\ last' = Thrown("createFiles", "P2003", args)
                /\ UNCHANGED <<files, nextFileId>>
           ELSE /\ r.nextId <= MaxFiles + 1
                /\ files' = r.rows
                /\ nextFileId' = r.nextId
                /\ last' = Result("createFiles", "ok", "", r.count, args)

CreateFiles(ups, userId, folderId) ==
    /\ CreateFilesCall(ups, userId, folderId)
    /\ UNCHANGED <<users, folders, blobs, uploads, nextFolderId, nextBlobId, procs>>

\* -------------------------------------------------------------- renameFileById
RenameFileById(userId, fileId, newFilename) ==
    /\ LET args == <<>>
           rows == {f \in files : f.id = fileId /\ f.userId = userId}
       IN  IF ~ ValidUserId(userId) \/ newFilename = <<>> \/ Trim(newFilename) = <<>>
           THEN /\ last' = Thrown("renameFileById", "ValidationError", args)
                /\ UNCHANGED files
           ELSE IF ~ FileNameRegexTest(newFilename)
           THEN /\ last' = Thrown("renameFileById", "ValidationError", args)
                /\ UNCHANGED files
           ELSE IF rows = {}
           THEN /\ last' = Thrown("renameFileById", "P2025", args)
                /\ UNCHANGED files
           ELSE LET old == CHOOSE f \in rows : TRUE
                    new == [old EXCEPT !.filename = Trim(newFilename)]
                IN  IF FileUniqueViolation(files, old.id, new.cloudId, new.filename, new.userId, new.folderId)
                    THEN /\ last' = Thrown("renameFileById", "P2002", args)
                         /\ UNCHANGED files
                    ELSE /\ files' = (files \ {old}) \cup {new}
                         /\ last' = Result("renameFileById", "ok", "", old.id, args)
    /\ UNCHANGED <<users, folders, blobs, uploads, nextFolderId, nextFileId, nextBlobId, procs>>

\* ------------------------------------------------------------ deleteFolderById
\* mutant: the delete removes the folder row alone
CascadeMut(rows, ids) == ids

\* ON DELETE CASCADE of folders_parent_folder_id_fkey: the ids removed with a
\* folder are the folder and every folder below it, at any depth
RECURSIVE Cascade(_, _)
Cascade(rows, ids) ==
    LET more == ids \cup {f.id : f \in {g \in rows : g.parentFolderId \in ids}}
    IN  IF more = ids THEN ids ELSE Cascade(rows, more)

\* folder.files and folder.children.flatMap(subfolder => subfolder.files):
\* the files of the folder and of its direct children, no deeper
CollectedFiles(folderId) ==
    LET children == {f.id : f \in {g \in folders : g.parentFolderId = folderId}}
    IN  {f \in files : f.folderId = folderId \/ f.folderId \in children}

CloudinaryFileIds(folderId) == {f.cloudId : f \in CollectedFiles(folderId)}

\* mutant: the folder is looked up by its id alone, whoever owns it
DeleteFolderFetchMut(p, folderId, userId) ==
    /\ procs[p].pc = "idle"
    /\ IF ~ ValidUserId(userId)
       THEN /\ last' = Thrown("deleteFolderById", "ValidationError", <<>>)
            /\ UNCHANGED procs
       ELSE IF ~ \E f \in folders : f.id = folderId
       THEN /\ last' = Thrown("deleteFolderById", "NotFoundError", <<>>)
            /\ UNCHANGED procs
       ELSE /\ procs' = [procs EXCEPT ![p] =
                            [pc |-> "fetched", op |-> "deleteFolderById", id |-> folderId,
                             userId |-> userId, ids |-> CloudinaryFileIds(folderId),
                             batch |-> {}, calls |-> 0, args |-> <<>>]]
            /\ last' = Result("deleteFolderById", "fetched", "", folderId, <<>>)
    /\ UNCHANGED <<users, folders, files, blobs, uploads, nextFolderId, nextFileId, nextBlobId>>

\* step 1: validUserIdCheck, findUnique({id, userId}) with its includes, and
\* step 2, up to the first await on the blob store or the relational delete
DeleteFolderFetch(p, folderId, userId) ==
    /\ procs[p].pc = "idle"
    /\ IF ~ ValidUserId(userId)
       THEN /\ last' = Thrown("deleteFolderById", "ValidationError", <<>>)
            /\ UNCHANGED procs
       ELSE IF ~ \E f \in folders : f.id = folderId /\ f.userId = userId
       THEN /\ last' = Thrown("deleteFolderById", "NotFoundError", <<>>)
            /\ UNCHANGED procs
       ELSE /\ procs' = [procs EXCEPT ![p] =
                            [pc |-> "fetched", op |-> "deleteFolderById", id |-> folderId,
                             userId |-> userId, ids |-> CloudinaryFileIds(folderId),
                             batch |-> {}, calls |-> 0, args |-> <<>>]]
            /\ last' = Result("deleteFolderById", "fetched", "", folderId, <<>>)
    /\ UNCHANGED <<users, folders, files, blobs, uploads, nextFolderId, nextFileId, nextBlobId>>

\* step 3, the call resolves: cloudinary.api.delete_resources(cloudinaryFileIds)
DeleteFolderBlobs(p) ==
    /\ procs[p].pc = "fetched"
    /\ procs[p].op = "deleteFolderById"
    /\ procs[p].ids # {}
    /\ blobs' = blobs \ procs[p].ids
    /\ procs' = [procs EXCEPT ![p].pc = "blobsDeleted", ![p].batch = procs[p].ids,
                              ![p].calls = procs[p].calls + 1]
    /\ last' = Result("deleteFolderById", "blobsDeleted", "", procs[p].id, <<>>)
    /\ UNCHANGED <<users, folders, files, uploads, nextFolderId, nextFileId, nextBlobId>>

\* mutant: the rejected blob call is swallowed and the cascade runs anyway
DeleteFolderBlobsFailMut(p) ==
    /\ procs[p].pc = "fetched"
    /\ procs[p].op = "deleteFolderById"
    /\ procs[p].ids # {}
    /\ procs' = [procs EXCEPT ![p] = IdleProc]
    /\ last' = Thrown("deleteFolderById", "CloudinaryError", <<>>)
    /\ folders' = {f \in folders : f.id \notin Cascade(folders, {procs[p].id})}
    /\ files' = {f \in files : f.folderId \notin Cascade(folders, {procs[p].id})}
    /\ UNCHANGED <<users, blobs, uploads, nextFolderId, nextFileId, nextBlobId>>

\* step 3, the call rejects: the catch hands the error to handlePrismaError
DeleteFolderBlobsFail(p) ==
    /\ procs[p].pc = "fetched"
    /\ procs[p].op = "deleteFolderById"
    /\ procs[p].ids # {}
    /\ procs' = [procs EXCEPT ![p] = IdleProc]
    /\ last' = Thrown("deleteFolderById", "CloudinaryError", <<>>)
    /\ UNCHANGED <<users, folders, files, blobs, uploads, nextFolderId, nextFileId, nextBlobId>>

\* mutant: the relational delete does not wait for the blob call
DeleteFolderRowMut(p) ==
    /\ procs[p].op = "deleteFolderById"
    /\ procs[p].pc \in {"fetched", "blobsDeleted"}
    /\ IF ~ \E f \in folders : f.id = procs[p].id
       THEN /\ last' = Thrown("deleteFolderById", "P2025", <<>>)
            /\ UNCHANGED <<folders, files>>
       ELSE LET gone == Cascade(folders, {procs[p].id})
            IN  /\ folders' = {f \in folders : f.id \notin gone}
                /\ files' = {f \in files : f.folderId \notin gone}
                /\ last' = Result("deleteFolderById", "ok", "", procs[p].id, <<>>)
    /\ procs' = [procs EXCEPT ![p] = IdleProc]
    /\ UNCHANGED <<users, blobs, uploads, nextFolderId, nextFileId, nextBlobId>>

\* step 4: prisma.folder.delete({where: {id}}), P2025 when the row is gone
DeleteFolderRow(p) ==
    /\ procs[p].op = "deleteFolderById"
    /\ \/ procs[p].pc = "blobsDeleted"
       \/ procs[p].pc = "fetched" /\ procs[p].ids = {}
    /\ IF ~ \E f \in folders : f.id = procs[p].id
       THEN /\ last' = Thrown("deleteFolderById", "P2025", <<>>)
            /\ UNCHANGED <<folders, files>>
       ELSE LET gone == Cascade(folders, {procs[p].id})
            IN  /\ folders' = {f \in folders : f.id \notin gone}
                /\ files' = {f \in files : f.folderId \notin gone}
                /\ last' = Result("deleteFolderById", "ok", "", procs[p].id, <<>>)
    /\ procs' = [procs EXCEPT ![p] = IdleProc]
    /\ UNCHANGED <<users, blobs, uploads, nextFolderId, nextFileId, nextBlobId>>

\* -------------------------------------------------------------- deleteFileById
\* mutant: the file is looked up by id alone
DeleteFileFetchMut(p, fileId, userId) ==
    /\ procs[p].pc = "idle"
    /\ IF ~ ValidUserId(userId)
       THEN /\ last' = Result("deleteFileById", "ValidationError", "invalid", 0, <<>>)
            /\ UNCHANGED procs
       ELSE IF ~ \E f \in files : f.id = fileId
       THEN /\ last' = Result("deleteFileById", "NotFoundError", "not found", 0, <<>>)
            /\ UNCHANGED procs
       ELSE LET file == CHOOSE f \in files : f.id = fileId
            IN  /\ procs' = [procs EXCEPT ![p] =
                                [pc |-> "fetched", op |-> "deleteFileById", id |-> fileId,
                                 userId |-> userId, ids |-> {file.cloudId},
                                 batch |-> {}, calls |-> 0, args |-> <<>>]]
                /\ last' = Result("deleteFileById", "fetched", "", fileId, <<>>)
    /\ UNCHANGED <<users, folders, files, blobs, uploads, nextFolderId, nextFileId, nextBlobId>>

\* validUserIdCheck and findUnique({id, userId}), up to the await on the blob
\* store
DeleteFileFetch(p, fileId, userId) ==
    /\ procs[p].pc = "idle"
    /\ IF ~ ValidUserId(userId)
       THEN /\ last' = Result("deleteFileById", "ValidationError", "invalid", 0, <<>>)
            /\ UNCHANGED procs
       ELSE IF ~ \E f \in files : f.id = fileId /\ f.userId = userId
       THEN /\ last' = Result("deleteFileById", "NotFoundError", "not found", 0, <<>>)
            /\ UNCHANGED procs
       ELSE LET file == CHOOSE f \in files : f.id = fileId /\ f.userId = userId
            IN  /\ procs' = [procs EXCEPT ![p] =
                                [pc |-> "fetched", op |-> "deleteFileById", id |-> fileId,
                                 userId |-> userId, ids |-> {file.cloudId},
                                 batch |-> {}, calls |-> 0, args |-> <<>>]]
                /\ last' = Result("deleteFileById", "fetched", "", fileId, <<>>)
    /\ UNCHANGED <<users, folders, files, blobs, uploads, nextFolderId, nextFileId, nextBlobId>>

\* mutant: the row is deleted together with the blob, before the blob call is
\* known to have succeeded
DeleteFileBlobMut(p) ==
    /\ procs[p].pc = "fetched"
    /\ procs[p].op = "deleteFileById"
    /\ blobs' = blobs \ procs[p].ids
    /\ files' = {f \in files : f.id # procs[p].id}
    /\ procs' = [procs EXCEPT ![p].pc = "blobsDeleted", ![p].batch = procs[p].ids,
                              ![p].calls = procs[p].calls + 1]
    /\ last' = Result("deleteFileById", "blobsDeleted", "", procs[p].id, <<>>)
    /\ UNCHANGED <<users, folders, uploads, nextFolderId, nextFileId, nextBlobId>>

\* cloudinary.uploader.destroy(file.cloudId) resolves
DeleteFileBlob(p) ==
    /\ procs[p].pc = "fetched"
    /\ procs[p].op = "deleteFileById"
    /\ blobs' = blobs \ procs[p].ids
    /\ procs' = [procs EXCEPT ![p].pc = "blobsDeleted", ![p].batch = procs[p].ids,
                              ![p].calls = procs[p].calls + 1]
    /\ last' = Result("deleteFileById", "blobsDeleted", "", procs[p].id, <<>>)
    /\ UNCHANGED <<users, folders, files, uploads, nextFolderId, nextFileId, nextBlobId>>

\* mutant: the row is deleted although the blob call was rejected
DeleteFileBlobFailMut(p) ==
    /\ procs[p].pc = "fetched"
    /\ procs[p].op = "deleteFileById"
    /\ procs' = [procs EXCEPT ![p] = IdleProc]
    /\ files' = {f \in files : f.id # procs[p].id}
    /\ last' = Result("deleteFileById", "Error", "cloudinary", procs[p].id, <<>>)
    /\ UNCHANGED <<users, folders, blobs, uploads, nextFolderId, nextFileId, nextBlobId>>

\* cloudinary.uploader.destroy rejects: not a PrismaClientKnownRequestError,
\* so the catch rethrows the error as it is
DeleteFileBlobFail(p) ==
    /\ procs[p].pc = "fetched"
    /\ procs[p].op = "deleteFileById"
    /\ procs' = [procs EXCEPT ![p] = IdleProc]
    /\ last' = Result("deleteFileById", "Error", "cloudinary", procs[p].id, <<>>)
    /\ UNCHANGED <<users, folders, files, blobs, uploads, nextFolderId, nextFileId, nextBlobId>>

\* prisma.file.delete({where: {id}}), P2025 when the row is gone
DeleteFileRow(p) ==
    /\ procs[p].op = "deleteFileById"
    /\ procs[p].pc = "blobsDeleted"
    /\ IF ~ \E f \in files : f.id = procs[p].id
       THEN /\ last' = Thrown("deleteFileById", "P2025", <<>>)
            /\ UNCHANGED files
       ELSE /\ files' = {f \in files : f.id # procs[p].id}
            /\ last' = Result("deleteFileById", "ok", "", procs[p].id, <<>>)
    /\ procs' = [procs EXCEPT ![p] = IdleProc]
    /\ UNCHANGED <<users, folders, blobs, uploads, nextFolderId, nextBlobId, nextFileId>>

\* the server process dies while a request is suspended at an await
Crash(p) ==
    /\ procs[p].pc \in {"fetched", "blobsDeleted"}
    /\ procs' = [procs EXCEPT ![p] = IdleProc]
    /\ last' = Result("crash", procs[p].pc, "", procs[p].id, <<>>)
    /\ UNCHANGED <<users, folders, files, blobs, uploads, nextFolderId, nextFileId, nextBlobId>>

\* ------------------------------------------------------ getFolderByUserAndParent
\* prisma.folder.findFirst({where: {userId, name, parentFolderId}}): the result
\* is written as a set, empty for null and otherwise holding the row returned;
\* with several matching rows the store may return any of them
FindFirstFolder(rows, userId, folderName, parentFolderId) ==
    LET matches == {f \in rows : /\ f.userId = userId
                                 /\ f.name = folderName
                                 /\ f.parentFolderId = parentFolderId}
    IN  IF matches = {} THEN {{}} ELSE {{f} : f \in matches}

GetFolderByUserAndParent(userId, folderName, parentFolderId) ==
    /\ IF ~ ValidUserId(userId) \/ folderName = <<>> \/ Trim(folderName) = <<>>
       THEN last' = Result("getFolderByUserAndParent", "ValidationError", "invalid", {}, <<>>)
       ELSE \E r \in FindFirstFolder(folders, userId, folderName, parentFolderId) :
               last' = Result("getFolderByUserAndParent", "ok", "", r, <<>>)
    /\ UNCHANGED <<users, folders, files, blobs, uploads, nextFolderId, nextFileId, nextBlobId, procs>>

\* -------------------------------------------------------- getFileByUserAndFolder
FindFirstFile(rows, userId, filename, folderId) ==
    LET matches == {f \in rows : /\ f.userId = userId
                                 /\ f.filename = filename
                                 /\ f.folderId = folderId}
    IN  IF matches = {} THEN {{}} ELSE {{f} : f \in matches}

GetFileByUserAndFolder(userId, filename, folderId) ==
    /\ IF ~ ValidUserId(userId) \/ filename = <<>> \/ Trim(filename) = <<>>
       THEN last' = Result("getFileByUserAndFolder", "ValidationError", "invalid", {}, <<>>)
       ELSE \E r \in FindFirstFile(files, userId, filename, folderId) :
               last' = Result("getFileByUserAndFolder", "ok", "", r, <<>>)
    /\ UNCHANGED <<users, folders, files, blobs, uploads, nextFolderId, nextFileId, nextBlobId, procs>>

\* ------------------------------------------------------------ getFoldersByUserId
\* prisma.folder.findMany({where: {userId, parentFolderId}}): the rows returned,
\* as a set (the query has no orderBy)
\*
\* mutant: the query is not scoped to the user
FindManyFoldersMut(rows, userId, parentFolderId) ==
    {f \in rows : f.parentFolderId = parentFolderId}

FindManyFolders(rows, userId, parentFolderId) ==
    {f \in rows : f.userId = userId /\ f.parentFolderId = parentFolderId}

GetFoldersByUserId(userId, parentFolderId) ==
    /\ IF ~ ValidUserId(userId) \/ ~ ValidParentFolderId(parentFolderId)
       THEN last' = Result("getFoldersByUserId", "ValidationError", "invalid", {}, <<>>)
       ELSE last' = Result("getFoldersByUserId", "ok", "",
                           FindManyFolders(folders, userId, parentFolderId), <<>>)
    /\ UNCHANGED <<users, folders, files, blobs, uploads, nextFolderId, nextFileId, nextBlobId, procs>>

\* -------------------------------------------------------------- getFilesByUserId
FindManyFiles(rows, userId, folderId) ==
    {f \in rows : f.userId = userId /\ f.folderId = folderId}

GetFilesByUserId(userId, folderId) ==
    /\ IF ~ ValidUserId(userId)
       THEN last' = Result("getFilesByUserId", "ValidationError", "invalid", {}, <<>>)
       ELSE last' = Result("getFilesByUserId", "ok", "",
                           FindManyFiles(files, userId, folderId), <<>>)
    /\ UNCHANGED <<users, folders, files, blobs, uploads, nextFolderId, nextFileId, nextBlobId, procs>>

\* -------------------------------------------------------------- postCreateFolder
CreateFolderSuffix == <<"/", "c", "r", "e", "a", "t", "e", "-", "f", "o", "l", "d", "e", "r">>

\* the controller's clean-up of req.params.folderPath: slice(0, -12) on a path
\* that ends with the 14 characters of "/create-folder"
CleanFolderPath(folderPath) ==
    IF folderPath # <<>> /\ EndsWith(folderPath, CreateFolderSuffix)
    THEN SliceOffEnd(folderPath, 12) ELSE folderPath

\* mutant: the parent is looked up among the folders of every user
PostCreateFolderResolveMut(p, userId, folderName, folderPath) ==
    /\ procs[p].pc = "idle"
    /\ LET path == CleanFolderPath(folderPath)
           resolved(parent) == [pc |-> "resolved", op |-> "postCreateFolder", id |-> parent,
                                userId |-> userId, ids |-> {}, batch |-> {}, calls |-> 0,
                                args |-> <<folderName>>]
       IN  IF path = <<>>
           THEN /\ procs' = [procs EXCEPT ![p] = resolved(Null)]
                /\ last' = Result("postCreateFolder", "resolved", "", Null, <<>>)
           ELSE \E u \in Users : \E r \in GetFolderByPathResults(folders, u, path) :
                   IF r = Null
                   THEN /\ last' = Result("postCreateFolder", "NotFoundError", "not found", 0, <<>>)
                        /\ UNCHANGED procs
                   ELSE /\ procs' = [procs EXCEPT ![p] = resolved(r)]
                        /\ last' = Result("postCreateFolder", "resolved", "", r, <<>>)
    /\ UNCHANGED <<users, folders, files, blobs, uploads, nextFolderId, nextFileId, nextBlobId>>

\* up to the await on createFolder: the parent is the folder that
\* getFolderByPath(userId, folderPath) returns, root for an empty path
PostCreateFolderResolve(p, userId, folderName, folderPath) ==
    /\ procs[p].pc = "idle"
    /\ LET path == CleanFolderPath(folderPath)
           resolved(parent) == [pc |-> "resolved", op |-> "postCreateFolder", id |-> parent,
                                userId |-> userId, ids |-> {}, batch |-> {}, calls |-> 0,
                                args |-> <<folderName>>]
       IN  IF path = <<>>
           THEN /\ procs' = [procs EXCEPT ![p] = resolved(Null)]
                /\ last' = Result("postCreateFolder", "resolved", "", Null, <<>>)
           ELSE \E r \in GetFolderByPathResults(folders, userId, path) :
                   IF r = Null
                   THEN /\ last' = Result("postCreateFolder", "NotFoundError", "not found", 0, <<>>)
                        /\ UNCHANGED procs
                   ELSE /\ procs' = [procs EXCEPT ![p] = resolved(r)]
                        /\ last' = Result("postCreateFolder", "resolved", "", r, <<>>)
    /\ UNCHANGED <<users, folders, files, blobs, uploads, nextFolderId, nextFileId, nextBlobId>>

\* await createFolder(userId, folderName, parent): an error ends the request
PostCreateFolderCreate(p) ==
    /\ procs[p].pc = "resolved"
    /\ procs[p].op = "postCreateFolder"
    /\ CreateFolderCall(procs[p].userId, procs[p].args[1], procs[p].id)
    /\ procs' = [procs EXCEPT ![p] = IF last'.kind = "ok"
                                     THEN [procs[p] EXCEPT !.pc = "created"]
                                     ELSE IdleProc]
    /\ UNCHANGED <<users, files, blobs, uploads, nextFileId, nextBlobId>>

\* res.redirect
PostCreateFolderRedirect(p) ==
    /\ procs[p].pc = "created"
    /\ procs[p].op = "postCreateFolder"
    /\ procs' = [procs EXCEPT ![p] = IdleProc]
    /\ last' = Result("postCreateFolder", "ok", "", procs[p].id, <<>>)
    /\ UNCHANGED <<users, folders, files, blobs, uploads, nextFolderId, nextFileId, nextBlobId>>

\* -------------------------------------------------------------------- postUpload
\* req.files.map(...): one upload_stream per file, all started before the
\* await; ids holds the files whose upload is still in flight, batch the
\* results of those that resolved, args the original names
PostUploadStart(p, userId, originalNames) ==
    /\ procs[p].pc = "idle"
    /\ IF originalNames = <<>>
       THEN /\ last' = Result("postUpload", "noFiles", "", 0, <<>>)
            /\ UNCHANGED procs
       ELSE /\ procs' = [procs EXCEPT ![p] =
                            [pc |-> "uploading", op |-> "postUpload", id |-> 0,
                             userId |-> userId, ids |-> 1..Len(originalNames),
                             batch |-> {}, calls |-> 0, args |-> originalNames]]
            /\ last' = Result("postUpload", "uploading", "", 0, <<>>)
    /\ UNCHANGED <<users, folders, files, blobs, uploads, nextFolderId, nextFileId, nextBlobId>>

\* one upload_stream calls back with a result: the blob is stored.  After
\* Promise.all has rejected, the uploads still in flight run on unobserved.
UploadStreamResolve(p, i) ==
    /\ procs[p].op = "postUpload"
    /\ procs[p].pc \in {"uploading", "rejected"}
    /\ i \in procs[p].ids
    /\ nextBlobId <= MaxBlobs
    /\ blobs' = blobs \cup {nextBlobId}
    /\ uploads' = uploads \cup {[public_id |-> nextBlobId, original_filename |-> procs[p].args[i]]}
    /\ nextBlobId' = nextBlobId + 1
    /\ procs' = [procs EXCEPT ![p] =
                    IF procs[p].pc = "rejected" /\ procs[p].ids = {i}
                    THEN IdleProc
                    ELSE [procs[p] EXCEPT !.ids = procs[p].ids \ {i},
                                          !.batch = procs[p].batch \cup
                                                    {[idx |-> i, public_id |-> nextBlobId,
                                                      original_filename |-> procs[p].args[i]]}]]
    /\ last' = Result("upload", "ok", "", nextBlobId, <<>>)
    /\ UNCHANGED <<users, folders, files, nextFolderId, nextFileId>>

\* mutant: a failed upload is left out and the request goes on with the rest
UploadStreamRejectMut(p, i) ==
    /\ procs[p].op = "postUpload"
    /\ procs[p].pc \in {"uploading", "rejected"}
    /\ i \in procs[p].ids
    /\ procs' = [procs EXCEPT ![p].ids = procs[p].ids \ {i}]
    /\ last' = Result("upload", "Error", "cloudinary", 0, <<>>)
    /\ UNCHANGED <<users, folders, files, blobs, uploads, nextFolderId, nextFileId, nextBlobId>>

\* one upload_stream calls back with an error: its promise rejects, and the
\* first rejection rejects Promise.all, which ends the request with the error
UploadStreamReject(p, i) ==
    /\ procs[p].op = "postUpload"
    /\ procs[p].pc \in {"uploading", "rejected"}
    /\ i \in procs[p].ids
    /\ procs' = [procs EXCEPT ![p] =
                    IF procs[p].ids = {i}
                    THEN IdleProc
                    ELSE [procs[p] EXCEPT !.pc = "rejected", !.ids = procs[p].ids \ {i}]]
    /\ last' = IF procs[p].pc = "uploading"
               THEN Result("postUpload", "Error", "cloudinary", 0, <<>>)
               ELSE Result("upload", "Error", "cloudinary", 0, <<>>)
    /\ UNCHANGED <<users, folders, files, blobs, uploads, nextFolderId, nextFileId, nextBlobId>>

\* the results of Promise.all, in the order of req.files
RECURSIVE UploadResults(_)
UploadResults(batch) ==
    IF batch = {}
    THEN <<>>
    ELSE LET r == CHOOSE b \in batch : \A c \in batch : b.idx <= c.idx
         IN  <<[public_id |-> r.public_id, original_filename |-> r.original_filename]>>
             \o UploadResults(batch \ {r})

\* Promise.all has resolved: createFiles(results, req.user.id), then the page
PostUploadCreateFiles(p) ==
    /\ procs[p].op = "postUpload"
    /\ procs[p].pc = "uploading"
    /\ procs[p].ids = {}
    /\ CreateFilesCall(UploadResults(procs[p].batch), procs[p].userId, Null)
    /\ procs' = [procs EXCEPT ![p] = IdleProc]
    /\ UNCHANGED <<users, folders, blobs, uploads, nextFolderId, nextBlobId>>

\* ---------------------------------------------- rename and delete controllers
\* public/scripts/fileActions.js: the currentPath the page sends with a
\* rename or delete request
FilesPrefix == <<"/", "f", "i", "l", "e", "s">>
GetCurrentPath(pathname) == Replace(pathname, FilesPrefix, <<>>)

\* const parentFolder = currentPath ? await getFolderByPath(...) : null;
\* const folderId = parentFolder ? parentFolder.id : null;
\* the ids the two statements can end with
ParentFolderIds(userId, currentPath) ==
    IF currentPath = <<>> THEN {Null} ELSE GetFolderByPathResults(folders, userId, currentPath)

ControllerResult(op, kind) ==
    /\ last' = Result(op, kind, "", 0, <<>>)
    /\ UNCHANGED <<users, folders, files, blobs, uploads, nextFolderId, nextFileId, nextBlobId, procs>>

PostRenameFile(userId, currentPath, oldItemName, newItemName) ==
    \E folderId \in ParentFolderIds(userId, currentPath) :
        IF oldItemName = <<>> \/ Trim(oldItemName) = <<>>
        THEN ControllerResult("postRenameFile", "ValidationError")
        ELSE \E r \in FindFirstFile(files, userId, oldItemName, folderId) :
                IF r = {}
                THEN ControllerResult("postRenameFile", "NotFoundError")
                ELSE IF \/ newItemName = <<>>
                        \/ Trim(newItemName) = <<>>
                        \/ ~ FileNameRegexTest(newItemName)
                THEN ControllerResult("postRenameFile", "ValidationError")
                ELSE \E file \in r : RenameFileById(userId, file.id, Trim(newItemName))

\* up to the first await of deleteFileById on the blob store
PostDeleteFile(p, userId, currentPath, itemName) ==
    /\ procs[p].pc = "idle"
    /\ \E folderId \in ParentFolderIds(userId, currentPath) :
          IF itemName = <<>> \/ Trim(itemName) = <<>>
          THEN ControllerResult("postDeleteFile", "ValidationError")
          ELSE \E r \in FindFirstFile(files, userId, itemName, folderId) :
                  IF r = {}
                  THEN ControllerResult("postDeleteFile", "NotFoundError")
                  ELSE \E file \in r : DeleteFileFetch(p, file.id, userId)

PostRenameFolder(userId, currentPath, oldItemName, newItemName) ==
    \E parentFolderId \in ParentFolderIds(userId, currentPath) :
        IF oldItemName = <<>> \/ Trim(oldItemName) = <<>>
        THEN ControllerResult("postRenameFolder", "ValidationError")
        ELSE \E r \in FindFirstFolder(folders, userId, oldItemName, parentFolderId) :
                IF r = {}
                THEN ControllerResult("postRenameFolder", "NotFoundError")
                ELSE IF \/ newItemName = <<>>
                        \/ Trim(newItemName) = <<>>
                        \/ ~ FolderNameRegexTest(newItemName)
                THEN ControllerResult("postRenameFolder", "ValidationError")
                ELSE \E folder \in r : RenameFolderById(folder.id, userId, Trim(newItemName))

\* up to the first await of deleteFolderById on the blob store
PostDeleteFolder(p, userId, currentPath, itemName) ==
    /\ procs[p].pc = "idle"
    /\ \E parentFolderId \in ParentFolderIds(userId, currentPath) :
          IF itemName = <<>> \/ Trim(itemName) = <<>>
          THEN ControllerResult("postDeleteFolder", "ValidationError")
          ELSE \E r \in FindFirstFolder(folders, userId, itemName, parentFolderId) :
                  IF r = {}
                  THEN ControllerResult("postDeleteFolder", "NotFoundError")
                  ELSE \E folder \in r : DeleteFolderFetch(p, folder.id, userId)

\* ------------------------------------------------------------ store failures
\* the codes of a store that cannot be reached (P1001) or times out (P1002)
StoreFaultCodes == {"P1001", "P1002"}

\* the engine operations whose store calls sit in a try block
CaughtOps ==
    {"createFolder", "getFoldersByUserId", "deleteFolderById", "renameFolderById",
     "getFolderByUserAndParent", "createFiles", "getFilesByUserId", "deleteFileById",
     "renameFileById", "getFileByUserAndFolder"}

EngineOps == CaughtOps \cup {"getFolderByPath"}

\* what the caller of an engine operation gets when a store call of the
\* operation rejects with a code: the catch blocks hand the error to
\* handlePrismaError; getFolderByPath has no try block and the store's error
\* leaves it as it is
EngineCatch(op, code) ==
    IF op \in CaughtOps
    THEN HandlePrismaError(code)
    ELSE [kind |-> "PrismaClientKnownRequestError", msg |-> code]

\* the first store call of an engine operation rejects
PrismaCallRejects(op, code) ==
    /\ last' = Result(op, EngineCatch(op, code).kind, EngineCatch(op, code).msg, 0, <<>>)
    /\ UNCHANGED <<users, folders, files, blobs, uploads, nextFolderId, nextFileId, nextBlobId, procs>>

\* prisma.folder.delete or prisma.file.delete rejects after the blob call
DeleteRowRejects(p, code) ==
    /\ procs[p].op \in {"deleteFolderById", "deleteFileById"}
    /\ \/ procs[p].pc = "blobsDeleted"
       \/ procs[p].op = "deleteFolderById" /\ procs[p].pc = "fetched" /\ procs[p].ids = {}
    /\ last' = Result(procs[p].op, EngineCatch(procs[p].op, code).kind,
                      EngineCatch(procs[p].op, code).msg, procs[p].id, <<>>)
    /\ procs' = [procs EXCEPT ![p] = IdleProc]
    /\ UNCHANGED <<users, folders, files, blobs, uploads, nextFolderId, nextFileId, nextBlobId>>

\* ------------------------------------------------------------------ createUser
\* mutant: the users table has no unique index
UserUniqueViolationMut(rows, username, email) == FALSE

\* @unique on username and on email, both NOT NULL columns
UserUniqueViolation(rows, username, email) ==
    \E i \in 1..Len(rows) : rows[i].username = username \/ rows[i].email = email

\* prisma.user.findUnique({where: {email}}), up to the next await
CreateUserCheckEmail(p, email, username) ==
    /\ procs[p].pc = "idle"
    /\ IF \E i \in 1..Len(users) : users[i].email = email
       THEN /\ last' = Thrown("createUser", "ValidationError", <<email, username>>)
            /\ UNCHANGED procs
       ELSE /\ procs' = [procs EXCEPT ![p] =
                            [pc |-> "emailChecked", op |-> "createUser", id |-> 0,
                             userId |-> "", ids |-> {}, batch |-> {}, calls |-> 0,
                             args |-> <<email, username>>]]
            /\ last' = Result("createUser", "emailChecked", "", 0, <<email, username>>)
    /\ UNCHANGED <<users, folders, files, blobs, uploads, nextFolderId, nextFileId, nextBlobId>>

\* prisma.user.findUnique({where: {username}}), then bcrypt.hash
CreateUserCheckUsername(p) ==
    /\ procs[p].op = "createUser"
    /\ procs[p].pc = "emailChecked"
    /\ IF \E i \in 1..Len(users) : users[i].username = procs[p].args[2]
       THEN /\ last' = Thrown("createUser", "ValidationError", procs[p].args)
            /\ procs' = [procs EXCEPT ![p] = IdleProc]
       ELSE /\ procs' = [procs EXCEPT ![p].pc = "usernameChecked"]
            /\ last' = Result("createUser", "usernameChecked", "", 0, procs[p].args)
    /\ UNCHANGED <<users, folders, files, blobs, uploads, nextFolderId, nextFileId, nextBlobId>>

\* prisma.user.create({data: {email, username, password}})
CreateUserInsert(p) ==
    /\ procs[p].op = "createUser"
    /\ procs[p].pc = "usernameChecked"
    /\ LET email == procs[p].args[1]
           username == procs[p].args[2]
           row == [id |-> Len(users) + 1, username |-> username, email |-> email]
       IN  IF UserUniqueViolation(users, username, email)
           THEN /\ last' = Thrown("createUser", "P2002", procs[p].args)
                /\ UNCHANGED users
           ELSE /\ Len(users) < MaxUsers
                /\ users' = Append(users, row)
                /\ last' = Result("createUser", "ok", "", row.id, procs[p].args)
    /\ procs' = [procs EXCEPT ![p] = IdleProc]
    /\ UNCHANGED <<folders, files, blobs, uploads, nextFolderId, nextFileId, nextBlobId>>

Init ==
    /\ users = <<>>
    /\ folders = {}
    /\ files = {}
    /\ blobs = {}
    /\ uploads = {}
    /\ nextFolderId = 1
    /\ nextFileId = 1
    /\ nextBlobId = 1
    /\ procs = [p \in ProcIds |-> IdleProc]
    /\ last = Result("none", "ok", "", 0, <<>>)

FolderNameInputs == {nA, nB, nEmpty}
RenameInputs == {nA, nB, nPadA, nSlash}
PathInputs == {nA, nB, <<"a", "/", "b">>, <<"a", "/", "a">>, <<"a", "/">>, <<"a", "/", "b", "/", "a">>}

NextFolder ==
    \/ \E u \in Users, n \in FolderNameInputs, p \in {Null} \cup FolderIds : CreateFolder(u, n, p)
    \/ \E id \in FolderIds, u \in Users, n \in RenameInputs : RenameFolderById(id, u, n)
    \/ \E u \in Users, path \in PathInputs : GetFolderByPath(u, path)

SpecFolder == Init /\ [][NextFolder]_vars

\* batches of distinct descriptors of blobs the store holds
RECURSIVE BatchesOf(_, _)
BatchesOf(ds, n) ==
    IF n = 0 THEN {<<>>}
    ELSE LET shorter == BatchesOf(ds, n - 1)
         IN  shorter \cup {Append(b, d) : b \in {x \in shorter : Len(x) = n - 1},
                                          d \in ds}

Batches ==
    {b \in BatchesOf({d \in uploads : d.public_id \in blobs}, MaxBatch) :
        /\ b # <<>>
        /\ \A i, j \in 1..Len(b) : i # j => b[i] # b[j]}

\* one user stores upload results named x at root, in the one folder or in a
\* folder that does not exist, and both users rename files
FileFolderInputs == {Null, 1, 2}
FileNameInputs == {nX}
FileRenameInputs == {nX, nY, <<"x", ".", "y">>}

NextFile ==
    \/ \E n \in FileNameInputs : UploadBlob(n)
    \/ folders = {} /\ CreateFolder("u1", nA, Null)
    \/ \E b \in Batches, f \in FileFolderInputs : CreateFiles(b, "u1", f)
    \/ \E u \in Users, id \in FileIds, n \in FileRenameInputs : RenameFileById(u, id, n)

SpecFile == Init /\ [][NextFile]_vars

\* one user builds a tree (root folders named a, folders below named a or b),
\* stores each upload result right after the upload in a folder that exists,
\* and deletes folders and files, one request at a time; a blob call may fail
\* and the server may die at an await
ExistingFolderIds == {f.id : f \in folders}
NewUploads == {d \in uploads : last.op = "upload" /\ d.public_id = last.val}

AllIdle == \A p \in ProcIds : procs[p].pc = "idle"

NextDelete ==
    \/ /\ AllIdle
       /\ \E n \in {nA, nB}, parent \in {Null} \cup ExistingFolderIds :
             (parent = Null => n = nA) /\ CreateFolder("u1", n, parent)
    \/ AllIdle /\ UploadBlob(nX)
    \/ /\ AllIdle
       /\ \E d \in NewUploads, f \in {Null} \cup ExistingFolderIds : CreateFiles(<<d>>, "u1", f)
    \/ \E p \in ProcIds, id \in FolderIds : DeleteFolderFetch(p, id, "u1")
    \/ \E p \in ProcIds : DeleteFolderBlobs(p)
    \/ \E p \in ProcIds : DeleteFolderBlobsFail(p)
    \/ \E p \in ProcIds : DeleteFolderRow(p)
    \/ \E p \in ProcIds, id \in FileIds : DeleteFileFetch(p, id, "u1")
    \/ \E p \in ProcIds : DeleteFileBlob(p)
    \/ \E p \in ProcIds : DeleteFileBlobFail(p)
    \/ \E p \in ProcIds : DeleteFileRow(p)
    \/ \E p \in ProcIds : Crash(p)

SpecDelete == Init /\ [][NextDelete]_vars

\* one user either arranges folders named a or b, at root and below, or, with
\* at most one folder made, stores files named x or y at root and in that
\* folder, one upload result at a time; both users rename folders and files,
\* to names that need trimming too
RenameFolderInputs == {nA, nB, nPadA}
RenameFileInputs == {nX, nY, <<"x", " ">>}

NextRename ==
    \/ /\ uploads = {}
       /\ \E n \in {nA, nB}, parent \in {Null} \cup ExistingFolderIds : CreateFolder("u1", n, parent)
    \/ /\ uploads = {}
       /\ \E id \in FolderIds, n \in RenameFolderInputs : RenameFolderById(id, "u1", n)
    \/ /\ uploads = {}
       /\ \E id \in FolderIds : RenameFolderById(id, "u2", nA)
    \/ /\ nextFolderId <= 2
       /\ \E n \in {nX, nY} : UploadBlob(n)
    \/ \E d \in NewUploads, f \in {Null, 1} : CreateFiles(<<d>>, "u1", f)
    \/ \E id \in FileIds, n \in RenameFileInputs : RenameFileById("u1", id, n)
    \/ \E id \in FileIds : RenameFileById("u2", id, nX)

SpecRename == Init /\ [][NextRename]_vars

\* one user builds a tree of folders named a and stores each upload result
\* right after the upload; the owner and a second user, who owns nothing, ask
\* for folders and files to be deleted, one request at a time
NextOwner ==
    \/ /\ AllIdle
       /\ \E parent \in {Null} \cup ExistingFolderIds : CreateFolder("u1", nA, parent)
    \/ AllIdle /\ UploadBlob(nX)
    \/ /\ AllIdle
       /\ \E d \in NewUploads, f \in {Null} \cup ExistingFolderIds : CreateFiles(<<d>>, "u1", f)
    \/ \E p \in ProcIds, id \in FolderIds, u \in Users : DeleteFolderFetch(p, id, u)
    \/ \E p \in ProcIds : DeleteFolderBlobs(p)
    \/ \E p \in ProcIds : DeleteFolderRow(p)
    \/ \E p \in ProcIds, id \in FileIds, u \in Users : DeleteFileFetch(p, id, u)
    \/ \E p \in ProcIds : DeleteFileBlob(p)
    \/ \E p \in ProcIds : DeleteFileRow(p)

SpecOwner == Init /\ [][NextOwner]_vars

\* every engine operation, called with user ids, names and parent ids that pass
\* and that fail its validation, over a store in which u1 owns up to two
\* folders and the files of single uploads and u2 owns one root folder
UserIdInputs == {"u1", "", NotAStringUserId}
NameInputs == {nA, nEmpty, <<" ">>, nSlash}
FilenameInputs == {nX, nEmpty, <<" ">>, nSlash}

NextEngine ==
    \/ AllIdle /\ nextFolderId <= MaxEngineFolders /\ CreateFolder("u1", nA, nextFolderId - 1)
    \/ AllIdle /\ nextFolderId = MaxEngineFolders + 1 /\ CreateFolder("u2", nA, Null)
    \/ AllIdle /\ \E u \in UserIdInputs, n \in {nB, nEmpty}, parent \in {Null, 1, NotAStringId} :
                     /\ ~ (ValidUserId(u) /\ n # <<>> /\ ValidParentFolderId(parent))
                     /\ CreateFolder(u, n, parent)
    \/ AllIdle /\ UploadBlob(nX)
    \/ AllIdle /\ \E d \in NewUploads, u \in UserIdInputs, f \in {Null, 1} : CreateFiles(<<d>>, u, f)
    \/ \E u \in UserIdInputs, n \in NameInputs : RenameFolderById(1, u, n)
    \/ \E u \in UserIdInputs, n \in FilenameInputs : RenameFileById(u, 1, n)
    \/ \E u \in UserIdInputs \cup {"u2"}, parent \in {Null, 1, NotAStringId} : GetFoldersByUserId(u, parent)
    \/ \E u \in UserIdInputs \cup {"u2"}, f \in {Null, 1} : GetFilesByUserId(u, f)
    \/ \E u \in UserIdInputs, n \in NameInputs, parent \in {Null, 1} : GetFolderByUserAndParent(u, n, parent)
    \/ \E u \in UserIdInputs, n \in FilenameInputs, f \in {Null, 1} : GetFileByUserAndFolder(u, n, f)
    \/ \E p \in ProcIds, u \in UserIdInputs : DeleteFolderFetch(p, 1, u)
    \/ \E p \in ProcIds : DeleteFolderBlobs(p)
    \/ \E p \in ProcIds : DeleteFolderRow(p)
    \/ \E p \in ProcIds, u \in UserIdInputs : DeleteFileFetch(p, 1, u)
    \/ \E p \in ProcIds : DeleteFileBlob(p)
    \/ \E p \in ProcIds : DeleteFileRow(p)

SpecEngine == Init /\ [][NextEngine]_vars

\* two requests at a time: both users create folders through postCreateFolder,
\* at root and under the paths a and a/a, and delete folders; u2 also calls the
\* engine's createFolder itself with parent ids of its choice
ControllerProcIds == {1, 2}
CreateFolderPaths == {<<>>, nA, <<"a", "/", "a">>,
                      <<"a", "/", "c", "r", "e", "a", "t", "e", "-", "f", "o", "l", "d", "e", "r">>}

InitController ==
    /\ users = <<>>
    /\ folders = {}
    /\ files = {}
    /\ blobs = {}
    /\ uploads = {}
    /\ nextFolderId = 1
    /\ nextFileId = 1
    /\ nextBlobId = 1
    /\ procs = [p \in ControllerProcIds |-> IdleProc]
    /\ last = Result("none", "ok", "", 0, <<>>)

NextController ==
    \/ \E p \in ControllerProcIds, u \in Users, path \in CreateFolderPaths :
          PostCreateFolderResolve(p, u, nA, path)
    \/ \E p \in ControllerProcIds : PostCreateFolderCreate(p)
    \/ \E p \in ControllerProcIds : PostCreateFolderRedirect(p)
    \/ \E parent \in {Null} \cup FolderIds : CreateFolder("u2", nA, parent)
    \/ \E p \in ControllerProcIds, id \in FolderIds, u \in Users : DeleteFolderFetch(p, id, u)
    \/ \E p \in ControllerProcIds : DeleteFolderRow(p)

SpecController == InitController /\ [][NextController]_vars

\* one user creates folders under any parent id, of a folder that exists or of
\* none, renames them and deletes them
NextTree ==
    \/ \E n \in {nA, nB}, parent \in {Null} \cup FolderIds : CreateFolder("u1", n, parent)
    \/ \E id \in FolderIds, n \in {nA, nB} : RenameFolderById(id, "u1", n)
    \/ \E p \in ProcIds, id \in FolderIds : DeleteFolderFetch(p, id, "u1")
    \/ \E p \in ProcIds : DeleteFolderRow(p)

SpecTree == Init /\ [][NextTree]_vars

\* one user posts upload forms of no file, one file or several files named x
\* or y, one request at a time; each upload to the blob store may fail
OriginalNameLists == BatchesOf({nX, nY}, MaxPosted)

NextUpload ==
    \/ \E p \in ProcIds, names \in OriginalNameLists : PostUploadStart(p, "u1", names)
    \/ \E p \in ProcIds, i \in 1..MaxPosted : UploadStreamResolve(p, i)
    \/ \E p \in ProcIds, i \in 1..MaxPosted : UploadStreamReject(p, i)
    \/ \E p \in ProcIds : PostUploadCreateFiles(p)

SpecUpload == Init /\ [][NextUpload]_vars

\* one user makes folders named a, stores single uploads and deletes folders
\* and files, one request at a time, over a store and a blob store that may
\* fail at any call
NextFault ==
    \/ /\ AllIdle
       /\ \E parent \in {Null} \cup ExistingFolderIds : CreateFolder("u1", nA, parent)
    \/ AllIdle /\ UploadBlob(nX)
    \/ /\ AllIdle
       /\ \E d \in NewUploads, f \in {Null} \cup ExistingFolderIds : CreateFiles(<<d>>, "u1", f)
    \/ \E p \in ProcIds, id \in FolderIds : DeleteFolderFetch(p, id, "u1")
    \/ \E p \in ProcIds : DeleteFolderBlobs(p)
    \/ \E p \in ProcIds : DeleteFolderBlobsFail(p)
    \/ \E p \in ProcIds : DeleteFolderRow(p)
    \/ \E p \in ProcIds, id \in FileIds : DeleteFileFetch(p, id, "u1")
    \/ \E p \in ProcIds : DeleteFileBlob(p)
    \/ \E p \in ProcIds : DeleteFileBlobFail(p)
    \/ \E p \in ProcIds : DeleteFileRow(p)
    \/ AllIdle /\ \E op \in EngineOps, code \in StoreFaultCodes : PrismaCallRejects(op, code)
    \/ \E p \in ProcIds, code \in StoreFaultCodes : DeleteRowRejects(p, code)

SpecFault == Init /\ [][NextFault]_vars

\* two sign-up requests at a time, with e-mail addresses and usernames drawn
\* from two values each
UserProcIds == {1, 2}
Emails == {"e1", "e2"}
Usernames == {"n1", "n2"}

InitUser ==
    /\ users = <<>>
    /\ folders = {}
    /\ files = {}
    /\ blobs = {}
    /\ uploads = {}
    /\ nextFolderId = 1
    /\ nextFileId = 1
    /\ nextBlobId = 1
    /\ procs = [p \in UserProcIds |-> IdleProc]
    /\ last = Result("none", "ok", "", 0, <<>>)

NextUser ==
    \/ \E p \in UserProcIds, e \in Emails, n \in Usernames : CreateUserCheckEmail(p, e, n)
    \/ \E p \in UserProcIds : CreateUserCheckUsername(p)
    \/ \E p \in UserProcIds : CreateUserInsert(p)

SpecUser == InitUser /\ [][NextUser]_vars

\* one user keeps a root folder a with a file x in it and a file x at root,
\* and sends rename and delete requests from the pages /files and /files/a,
\* and with the paths a and b written by hand
Pathnames == {FilesPrefix, FilesPrefix \o <<"/", "a">>}
CurrentPaths == {GetCurrentPath(pn) : pn \in Pathnames} \cup {nA, nB}

NextRequest ==
    \/ nextFolderId <= 2 /\ AllIdle /\ \E parent \in {Null} \cup ExistingFolderIds : CreateFolder("u1", nA, parent)
    \/ AllIdle /\ UploadBlob(nX)
    \/ /\ AllIdle
       /\ \E d \in NewUploads, f \in {Null} \cup ExistingFolderIds : CreateFiles(<<d>>, "u1", f)
    \/ \E path \in CurrentPaths, n \in {nX, nSlash} : PostRenameFile("u1", path, nX, n)
    \/ \E p \in ProcIds, path \in CurrentPaths : PostDeleteFile(p, "u1", path, nX)
    \/ \E path \in CurrentPaths, n \in {nA, nSlash} : PostRenameFolder("u1", path, nA, n)
    \/ \E p \in ProcIds, path \in CurrentPaths : PostDeleteFolder(p, "u1", path, nA)
    \/ \E p \in ProcIds : DeleteFolderBlobs(p)
    \/ \E p \in ProcIds : DeleteFolderRow(p)
    \/ \E p \in ProcIds : DeleteFileBlob(p)
    \/ \E p \in ProcIds : DeleteFileRow(p)

SpecRequest == Init /\ [][NextRequest]_vars

\* two users over one store: u1 makes up to two folders, u2 makes a folder at
\* root or, by its id, under any folder there is; two single uploads are stored
\* for u1 at root or in any folder; each user renames and deletes folders and
\* files by any id, one delete request at a time
NextShared ==
    \/ /\ AllIdle /\ nextFolderId <= 2
       /\ \E parent \in {Null} \cup ExistingFolderIds : CreateFolder("u1", nA, parent)
    \/ /\ AllIdle /\ ~ \E f \in folders : f.userId = "u2"
       /\ \E parent \in {Null} \cup ExistingFolderIds : CreateFolder("u2", nA, parent)
    \/ AllIdle /\ nextBlobId <= 2 /\ UploadBlob(nX)
    \/ /\ AllIdle
       /\ \E d \in NewUploads, f \in {Null} \cup ExistingFolderIds : CreateFiles(<<d>>, "u1", f)
    \/ AllIdle /\ \E id \in FolderIds, u \in Users : RenameFolderById(id, u, nB)
    \/ AllIdle /\ \E id \in FileIds, u \in Users : RenameFileById(u, id, nY)
    \/ \E p \in ProcIds, id \in FolderIds, u \in Users : DeleteFolderFetch(p, id, u)
    \/ \E p \in ProcIds : DeleteFolderBlobs(p)
    \/ \E p \in ProcIds : DeleteFolderRow(p)
    \/ \E p \in ProcIds, id \in FileIds, u \in Users : DeleteFileFetch(p, id, u)
    \/ \E p \in ProcIds : DeleteFileBlob(p)
    \/ \E p \in ProcIds : DeleteFileRow(p)

SpecShared == Init /\ [][NextShared]_vars

\* one user keeps a folder and a folder inside it, and stores single uploads
\* in either while a request to delete a folder is between its awaits
NextRace ==
    \/ /\ AllIdle /\ nextFolderId <= 2
       /\ \E parent \in {Null} \cup ExistingFolderIds : CreateFolder("u1", nA, parent)
    \/ UploadBlob(nX)
    \/ \E d \in NewUploads, f \in ExistingFolderIds : CreateFiles(<<d>>, "u1", f)
    \/ \E p \in ProcIds, id \in FolderIds : DeleteFolderFetch(p, id, "u1")
    \/ \E p \in ProcIds : DeleteFolderBlobs(p)
    \/ \E p \in ProcIds : DeleteFolderRow(p)

SpecRace == Init /\ [][NextRace]_vars

\* one user stores single uploads at root and sends requests to delete a
\* file, two of them at a time
NextFileRace ==
    \/ UploadBlob(nX)
    \/ \E d \in NewUploads : CreateFiles(<<d>>, "u1", Null)
    \/ \E p \in ControllerProcIds, id \in FileIds : DeleteFileFetch(p, id, "u1")
    \/ \E p \in ControllerProcIds : DeleteFileBlob(p)
    \/ \E p \in ControllerProcIds : DeleteFileRow(p)

SpecFileRace == InitController /\ [][NextFileRace]_vars

\* one user makes folders named a, at root and under any folder there is, and
\* renames them to a or b, with padding too
NextRenameTree ==
    \/ \E parent \in {Null} \cup ExistingFolderIds : CreateFolder("u1", nA, parent)
    \/ \E id \in FolderIds, n \in RenameFolderInputs : RenameFolderById(id, "u1", n)
    \/ \E path \in {nA, nB, <<"a", "/", "a">>, <<"b", "/", "a">>} : GetFolderByPath("u1", path)

SpecRenameTree == Init /\ [][NextRenameTree]_vars

\* one user makes folders named a, b or a/b, at root and under any folder
\* there is, and resolves paths
NextNames ==
    \/ \E n \in {nA, nB, nSlash}, parent \in {Null} \cup ExistingFolderIds : CreateFolder("u1", n, parent)
    \/ \E path \in PathInputs : GetFolderByPath("u1", path)

SpecNames == Init /\ [][NextNames]_vars

\* one user makes folders under any parent id, of a folder that exists or of
\* none, stores one upload under any folder id, renames folders and files
\* and deletes folders, the creates running between the awaits of a delete too
NextIntegrity ==
    \/ \E parent \in {Null} \cup FolderIds : CreateFolder("u1", nA, parent)
    \/ nextBlobId = 1 /\ UploadBlob(nX)
    \/ \E d \in NewUploads, f \in {Null} \cup FolderIds : CreateFiles(<<d>>, "u1", f)
    \/ AllIdle /\ \E id \in FolderIds : RenameFolderById(id, "u1", nB)
    \/ AllIdle /\ \E id \in FileIds : RenameFileById("u1", id, nY)
    \/ \E p \in ProcIds, id \in FolderIds : DeleteFolderFetch(p, id, "u1")
    \/ \E p \in ProcIds : DeleteFolderBlobs(p)
    \/ \E p \in ProcIds : DeleteFolderRow(p)

SpecIntegrity == Init /\ [][NextIntegrity]_vars

\* =================================================================== claims
\* the step in which process p ends its operation op with a result
Ends(p, op) ==
    /\ procs[p].op = op
    /\ procs[p].pc # "idle"
    /\ procs'[p].pc = "idle"
    /\ last'.op = op

\* the step in which the server dies under process p
Dies(p) ==
    /\ procs[p].pc # "idle"
    /\ procs'[p].pc = "idle"
    /\ last'.op = "crash"

\* C1: when the batch blob-deletion call of deleteFolderById fails, the
\* operation ends in an error (DatabaseError) and removes no relational row:
\* folders and files are as before, and the folder is still there for the
\* same (folderId, userId), so the delete can be tried again.
C1_BlobFailureDeletesNothing ==
    [][\A p \in ProcIds :
          (Ends(p, "deleteFolderById") /\ procs[p].pc = "fetched" /\ procs[p].ids # {})
          => /\ last'.kind = "DatabaseError"
             /\ folders' = folders
             /\ files' = files
             /\ \E f \in folders' : f.id = procs[p].id /\ f.userId = procs[p].userId
             /\ \A c \in procs[p].ids : \E f \in files' : f.cloudId = c]_vars

C1_Witness ==
    /\ last.op = "deleteFolderById"
    /\ last.kind = "DatabaseError"
    /\ \E f \in folders : f.id = 1 /\ \E g \in files : g.folderId = f.id /\ g.cloudId \in blobs
    /\ \E f \in folders : f.parentFolderId = 1 /\ \E g \in files : g.folderId = f.id /\ g.cloudId \in blobs

\* C2 as stated: every successful deleteFolderById has issued exactly one batch
\* blob-deletion call, for all collected ids, before it removes the first row,
\* and afterwards the folder, the folders below it and their files are gone.
C2_ExactlyOneBatchCall ==
    [][\A p \in ProcIds :
          (Ends(p, "deleteFolderById") /\ last'.kind = "ok")
          => /\ procs[p].calls = 1
             /\ procs[p].batch = procs[p].ids
             /\ \A g \in Cascade(folders, {procs[p].id}) :
                   /\ ~ \E f \in folders' : f.id = g
                   /\ ~ \E f \in files' : f.folderId = g]_vars

\* C2 amended: a successful deleteFolderById has issued exactly one batch
\* blob-deletion call when it collected at least one blob id and none when it
\* collected no id; the call covered every collected id and had completed
\* (the blobs are gone) before the step that removes the first relational row,
\* no earlier step of the operation removes a row, and afterwards the folder,
\* the folders below it and their files are absent.
C2_OneBatchCallWhenIdsCollected ==
    [][\A p \in ProcIds :
          /\ (Ends(p, "deleteFolderById") /\ last'.kind = "ok")
             => /\ procs[p].calls = (IF procs[p].ids = {} THEN 0 ELSE 1)
                /\ procs[p].batch = procs[p].ids
                /\ procs[p].batch \cap blobs = {}
                /\ \A g \in Cascade(folders, {procs[p].id}) :
                      /\ ~ \E f \in folders' : f.id = g
                      /\ ~ \E f \in files' : f.folderId = g
          /\ (procs[p].op = "deleteFolderById" /\ procs'[p].pc # "idle")
             => (folders' = folders /\ files' = files)]_vars

C2_Witness ==
    /\ last.op = "deleteFolderById"
    /\ last.kind = "ok"
    /\ Cardinality(uploads) >= 2
    /\ blobs = {}
    /\ files = {}
    /\ nextFileId = 3
    /\ nextFolderId >= 3

\* C3: after a successful deleteFolderById no blob of a file row that the
\* cascade removed is left in the blob store, whatever the depth of the row.
C3_NoBlobOfDeletedSubtreeRemains ==
    [][\A p \in ProcIds :
          (Ends(p, "deleteFolderById") /\ last'.kind = "ok")
          => \A f \in files \ files' : f.cloudId \notin blobs']_vars

\* C8: deleteFileById removes the file row only in a step that follows a
\* successful blob deletion (the blob is already gone), and when the blob
\* deletion fails the error reaches the caller as it is and the row is still
\* present.
C8_RowDeletedOnlyAfterBlob ==
    [][\A p \in ProcIds :
          /\ (procs[p].op = "deleteFileById" /\ last'.op = "deleteFileById" /\ files' # files)
             => /\ procs[p].pc = "blobsDeleted"
                /\ procs[p].ids \cap blobs = {}
                /\ files' = {f \in files : f.id # procs[p].id}
          /\ (Ends(p, "deleteFileById") /\ procs[p].pc = "fetched")
             => /\ last'.kind = "Error"
                /\ files' = files
                /\ \E f \in files' : f.id = procs[p].id /\ f.cloudId \in procs[p].ids]_vars

C8_Witness ==
    /\ last.op = "deleteFileById"
    /\ last.kind = "Error"
    /\ \E f \in files : f.id = last.val /\ f.cloudId \in blobs

\* C9 as stated: the relational store never holds a file row whose blob has
\* been deleted from the blob store.
C9_NoRowWithDeletedBlob ==
    \A f \in files : f.cloudId \in blobs

\* C9 amended: a delete that is interrupted after its blob deletion and before
\* its relational delete has removed no row: the interruption changes neither
\* store, every blob of the batch is gone and its file row is still present.
\* An interruption leaves file rows that point at deleted blobs, not blobs
\* whose rows the operation removed.
C9_InterruptionLeavesRowsOfDeletedBlobs ==
    [][\A p \in ProcIds :
          Dies(p)
          => /\ folders' = folders
             /\ files' = files
             /\ blobs' = blobs
             /\ procs[p].pc = "blobsDeleted"
                => \A c \in procs[p].batch :
                      c \notin blobs' /\ \E f \in files' : f.cloudId = c]_vars

C9_Witness ==
    /\ last.op = "crash"
    /\ last.kind = "blobsDeleted"
    /\ \E f \in files : f.cloudId \notin blobs

\* C4: at most one Folder row exists for each (name, userId, parentFolderId),
\* root level (parentFolderId null) included.
C4_FolderTripleUnique ==
    \A f, g \in folders :
        (f.name = g.name /\ f.userId = g.userId /\ f.parentFolderId = g.parentFolderId)
        => f = g

\* C5: a createFolder whose (name, userId, parentFolderId) already exists
\* fails with the Conflict kind and leaves the folder table unchanged, at root
\* and below; with another userId the same name and parent are accepted.
C5_DuplicateCreateConflicts ==
    [][\A u \in Users, n \in FolderNameInputs, parent \in {Null} \cup FolderIds :
          CreateFolder(u, n, parent)
          => /\ (\E f \in folders : f.name = n /\ f.userId = u /\ f.parentFolderId = parent)
                => (IsConflict(last') /\ folders' = folders)
             /\ ( /\ n # <<>>
                  /\ ~ FolderFkViolation(folders, parent)
                  /\ ~ \E f \in folders : f.name = n /\ f.userId = u /\ f.parentFolderId = parent )
                => (last'.kind = "ok" /\ \E f \in folders' \ folders :
                                             f.name = n /\ f.userId = u /\ f.parentFolderId = parent)]_vars

\* C6: at most one File row exists for each (filename, userId, folderId),
\* root level (folderId null) included.
C6_FileTripleUnique ==
    \A f, g \in files :
        (f.filename = g.filename /\ f.userId = g.userId /\ f.folderId = g.folderId)
        => f = g

\* the folders whose chain of ancestors, from root down, carries the names of
\* the segments in order
RECURSIVE MatchesChain(_, _, _)
MatchesChain(f, userId, segs) ==
    /\ f.userId = userId
    /\ f.name = segs[Len(segs)]
    /\ IF Len(segs) = 1 THEN f.parentFolderId = Null
       ELSE \E g \in folders : /\ g.id = f.parentFolderId
                               /\ MatchesChain(g, userId, SubSeq(segs, 1, Len(segs) - 1))

ChainMatches(userId, path) == {f.id : f \in {g \in folders : MatchesChain(g, userId, Split(path))}}

\* C7: getFolderByPath(U, P) returns the folder that matches the full chain of
\* segments from root, that folder is the only one matching the chain, and it
\* returns null exactly when no folder matches the chain.
C7_ResolvesTheUniqueChain ==
    [][\A u \in Users, path \in PathInputs :
          GetFolderByPath(u, path)
          => IF ChainMatches(u, path) = {} THEN last'.val = Null
             ELSE ChainMatches(u, path) = {last'.val}]_vars

\* C10: a createFiles call that repeats the call just made (same descriptors,
\* userId and folderId) returns count 0, raises no error and leaves the file
\* table unchanged.
C10_SecondCreateFilesInsertsNothing ==
    [][\A b \in Batches, u \in Users, f \in FileFolderInputs :
          ( /\ last.op = "createFiles"
            /\ last.kind = "ok"
            /\ last.args = <<b, u, f>>
            /\ CreateFiles(b, u, f) )
          => /\ last'.kind = "ok"
             /\ last'.val = 0
             /\ files' = files
             /\ nextFileId' = nextFileId]_vars

C10_Witness ==
    /\ last.op = "createFiles"
    /\ last.kind = "ok"
    /\ last.val = 0
    /\ Len(last.args[1]) = 2
    /\ \A i \in 1..Len(last.args[1]) :
          \E f \in files : /\ f.cloudId = last.args[1][i].public_id
                           /\ f.userId = last.args[2]
                           /\ f.folderId = last.args[3]

\* C11: renameFolderById and renameFileById to a name that a different sibling
\* (same userId, same parent or folder, root included) already carries fail
\* with the Conflict kind, and the renamed item and the sibling are both
\* unchanged and still found under their old names by
\* getFolderByUserAndParent / getFileByUserAndFolder.
C11_RenameToSiblingNameConflicts ==
    [][ /\ \A id \in FolderIds, u \in Users, n \in RenameFolderInputs :
              RenameFolderById(id, u, n)
              => \A old, sib \in folders :
                    ( /\ old.id = id /\ old.userId = u
                      /\ sib.id # id /\ sib.userId = u
                      /\ sib.parentFolderId = old.parentFolderId
                      /\ sib.name = Trim(n) )
                    => /\ IsConflict(last')
                       /\ folders' = folders
                       /\ {old} \in FindFirstFolder(folders', u, old.name, old.parentFolderId)
                       /\ {sib} \in FindFirstFolder(folders', u, sib.name, sib.parentFolderId)
        /\ \A id \in FileIds, u \in Users, n \in RenameFileInputs :
              RenameFileById(u, id, n)
              => \A old, sib \in files :
                    ( /\ old.id = id /\ old.userId = u
                      /\ sib.id # id /\ sib.userId = u
                      /\ sib.folderId = old.folderId
                      /\ sib.filename = Trim(n) )
                    => /\ IsConflict(last')
                       /\ files' = files
                       /\ {old} \in FindFirstFile(files', u, old.filename, old.folderId)
                       /\ {sib} \in FindFirstFile(files', u, sib.filename, sib.folderId) ]_vars

\* C12: renameFolderById and renameFileById with a valid name fail with the
\* NotFound kind and change no row when no row matches (id, userId), whether
\* the id does not exist or belongs to another user.
C12_RenameOfNoMatchIsNotFound ==
    [][ /\ \A id \in FolderIds, u \in Users, n \in RenameFolderInputs :
              ( /\ RenameFolderById(id, u, n)
                /\ ~ \E f \in folders : f.id = id /\ f.userId = u )
              => (last'.kind = "NotFoundError" /\ folders' = folders)
        /\ \A id \in FileIds, u \in Users, n \in RenameFileInputs :
              ( /\ RenameFileById(u, id, n)
                /\ ~ \E f \in files : f.id = id /\ f.userId = u )
              => (last'.kind = "NotFoundError" /\ files' = files) ]_vars

\* C13: a deleteFolderById or deleteFileById call gets past its lookup only
\* when a row with its id is owned by its userId; a call with an id that exists
\* but is owned by another user ends at once with the NotFound error, the very
\* result of a call with an id that does not exist: no blob-store call is
\* issued (the request is not left waiting on one) and neither store changes.
C13_ForeignIdIsNotFound ==
    [][\A p \in ProcIds :
          (procs[p].pc = "idle" /\ last'.op \in {"deleteFolderById", "deleteFileById"})
          => IF procs'[p].pc = "fetched"
             THEN \/ /\ last'.op = "deleteFolderById"
                     /\ \E f \in folders : f.id = procs'[p].id /\ f.userId = procs'[p].userId
                  \/ /\ last'.op = "deleteFileById"
                     /\ \E f \in files : f.id = procs'[p].id /\ f.userId = procs'[p].userId
             ELSE /\ last'.kind = "NotFoundError"
                  /\ last' = Result(last'.op, "NotFoundError", "not found", 0, <<>>)
                  /\ UNCHANGED <<folders, files, blobs, procs>>]_vars

\* every folder id is in use and owned by u1, with a file and its blob below
\* one of them, and the last deleteFolderById ended NotFound: the call was made
\* by the other user on an id that exists
C13_Witness ==
    /\ last = Thrown("deleteFolderById", "NotFoundError", <<>>)
    /\ {f.id : f \in folders} = FolderIds
    /\ \A f \in folders : f.userId = "u1"
    /\ \E g \in files : g.folderId # Null /\ g.cloudId \in blobs

\* C14: of two requests of the same user that race for the same new name
\* under the same parent (createFolder or renameFolderById) at most one
\* succeeds.  Each request holds one store statement, issued after the
\* synchronous validation and followed by nothing, so a race is the two
\* statements in either order: the statement that comes second finds the name
\* taken, ends with the Conflict kind and changes nothing; a statement that
\* succeeds writes one row, leaves every other row as it was, and the store
\* then holds exactly one row with that name under that parent.
C14_RaceHasOneWinner ==
    [][ /\ \A u \in Users, n \in FolderNameInputs, parent \in {Null} \cup FolderIds :
              ( /\ CreateFolder(u, n, parent)
                /\ \E f \in folders : f.name = n /\ f.userId = u /\ f.parentFolderId = parent )
              => (IsConflict(last') /\ folders' = folders)
        /\ \A id \in FolderIds, u \in Users, n \in RenameInputs :
              ( /\ RenameFolderById(id, u, n)
                /\ \E old, f \in folders :
                      /\ old.id = id /\ old.userId = u
                      /\ f.id # id /\ f.userId = u
                      /\ f.parentFolderId = old.parentFolderId /\ f.name = Trim(n) )
              => (IsConflict(last') /\ folders' = folders)
        /\ (last'.op \in {"createFolder", "renameFolderById"} /\ last'.kind = "ok")
              => /\ \A r \in folders' \ folders :
                       Cardinality({f \in folders' : /\ f.name = r.name
                                                     /\ f.userId = r.userId
                                                     /\ f.parentFolderId = r.parentFolderId}) = 1
                 /\ Cardinality(folders' \ folders) <= 1
                 /\ \A f \in folders : f.id # last'.val => f \in folders'
        /\ (last'.op \in {"createFolder", "renameFolderById"} /\ last'.kind # "ok")
              => folders' = folders ]_vars

RefusedFolderName(n) == n = <<>> \/ Trim(n) = <<>> \/ ~ FolderNameRegexTest(n)
RefusedFilename(n) == n = <<>> \/ Trim(n) = <<>> \/ ~ FileNameRegexTest(n)

\* C16: an engine operation that fails Validation does so before any call to
\* the relational store or the blob store: the failed call changes no folder
\* row, no file row and no blob and leaves no request waiting on either store.
\* The renames fail Validation for an empty or non-string userId and for an
\* empty, whitespace-only or ill-charactered name, createFolder and
\* getFoldersByUserId for a non-string non-null parentFolderId.
C16_ValidationFailsBeforeAnyStoreCall ==
    [][ /\ (last'.kind = "ValidationError" /\ last'.msg = "invalid")
           => UNCHANGED <<folders, files, blobs, uploads, nextFolderId, nextFileId, procs>>
        /\ last'.op = "renameFolderById"
           => \A u \in UserIdInputs, n \in NameInputs :
                 ( /\ ~ ValidUserId(u) \/ RefusedFolderName(n)
                   /\ RenameFolderById(1, u, n) )
                 => last' = Thrown("renameFolderById", "ValidationError", <<>>)
        /\ last'.op = "renameFileById"
           => \A u \in UserIdInputs, n \in FilenameInputs :
                 ( /\ ~ ValidUserId(u) \/ RefusedFilename(n)
                   /\ RenameFileById(u, 1, n) )
                 => last' = Thrown("renameFileById", "ValidationError", <<>>)
        /\ last'.op = "createFolder"
           => \A u \in UserIdInputs, n \in {nB, nEmpty} :
                 CreateFolder(u, n, NotAStringId)
                 => last' = Thrown("createFolder", "ValidationError", <<>>)
        /\ last'.op = "getFoldersByUserId"
           => \A u \in UserIdInputs :
                 GetFoldersByUserId(u, NotAStringId)
                 => (last'.kind = "ValidationError" /\ last'.msg = "invalid") ]_vars

\* a rename of folder 1 failed Validation while folder 1, a file of its own
\* and the blob of that file were in the stores
C16_Witness ==
    /\ last = Thrown("renameFolderById", "ValidationError", <<>>)
    /\ \E f \in folders : f.id = 1
    /\ \E g \in files : g.folderId = 1 /\ g.cloudId \in blobs

\* C17 as stated: in every reachable state each folder with a non-null
\* parentFolderId has a parent folder owned by the same userId.
C17_ParentOwnedBySameUser ==
    \A f \in folders :
        f.parentFolderId # Null
        => \E g \in folders : g.id = f.parentFolderId /\ g.userId = f.userId

\* C17 amended: a folder that postCreateFolder creates is created at root or
\* under a folder owned by the requesting user, whatever other requests run
\* between the lookup of the parent and the insert; and the folders of u1, who
\* creates folders through postCreateFolder only, have at every step a parent
\* owned by u1 when they have a parent.
C17_ControllerParentOwnedBySameUser ==
    [][ /\ \A p \in ControllerProcIds :
              ( /\ procs[p].op = "postCreateFolder"
                /\ procs[p].pc = "resolved"
                /\ procs'[p].pc = "created" )
              => \A f \in folders' \ folders :
                    /\ f.userId = procs[p].userId
                    /\ f.parentFolderId = procs[p].id
                    /\ f.parentFolderId # Null
                       => \E g \in folders' : g.id = f.parentFolderId /\ g.userId = f.userId
        /\ \A f \in folders' :
              (f.userId = "u1" /\ f.parentFolderId # Null)
              => \E g \in folders' : g.id = f.parentFolderId /\ g.userId = "u1" ]_vars

\* a request of u1 has just created a folder under a folder of u1
C17_Witness ==
    \E p \in ControllerProcIds :
        /\ procs[p].pc = "created"
        /\ procs[p].userId = "u1"
        /\ procs[p].id # Null
        /\ last = Result("createFolder", "ok", "", last.val, <<>>)
        /\ \E f, g \in folders : /\ f.id = last.val
                                 /\ f.userId = "u1"
                                 /\ f.parentFolderId = procs[p].id
                                 /\ g.id = f.parentFolderId
                                 /\ g.userId = "u1"

\* following parent references from folder id reaches root (null) in at most
\* fuel steps, each step at a folder that exists
RECURSIVE ReachesRoot(_, _)
ReachesRoot(id, fuel) ==
    \/ id = Null
    \/ /\ fuel > 0
       /\ \E f \in folders : f.id = id /\ ReachesRoot(f.parentFolderId, fuel - 1)

\* C18: in every state reached by createFolder, renameFolderById and
\* deleteFolderById calls the parent relation is acyclic: from any folder the
\* parent references lead to root in no more steps than there are folders, so
\* no folder is met twice.
C18_ParentRelationAcyclic ==
    \A f \in folders : ReachesRoot(f.id, Cardinality(folders))

\* a chain of three folders, the last call a successful rename
C18_Witness ==
    /\ last.op = "renameFolderById"
    /\ last.kind = "ok"
    /\ \E f, g, h \in folders : /\ f.parentFolderId = Null
                                /\ g.parentFolderId = f.id
                                /\ h.parentFolderId = g.id

\* C19: getFoldersByUserId(userId, parentFolderId) returns the folders with
\* that userId and that parentFolderId and no others (no folder further down,
\* no folder of another user), getFilesByUserId(userId, folderId) the files
\* with that userId and folderId and no others; with nothing to return both
\* succeed with an empty result.
C19_ListsExactlyTheDirectChildren ==
    [][ /\ last'.op = "getFoldersByUserId"
           => \A u \in Users, parent \in {Null, 1} :
                 GetFoldersByUserId(u, parent)
                 => /\ last'.kind = "ok"
                    /\ \A f \in last'.val : /\ f \in folders
                                            /\ f.userId = u
                                            /\ f.parentFolderId = parent
                    /\ \A f \in folders :
                          (f.userId = u /\ f.parentFolderId = parent) => f \in last'.val
        /\ last'.op = "getFilesByUserId"
           => \A u \in Users, folderId \in {Null, 1} :
                 GetFilesByUserId(u, folderId)
                 => /\ last'.kind = "ok"
                    /\ \A f \in last'.val : /\ f \in files
                                            /\ f.userId = u
                                            /\ f.folderId = folderId
                    /\ \A f \in files :
                          (f.userId = u /\ f.folderId = folderId) => f \in last'.val ]_vars

\* u1 owns a root folder and a folder inside it, u2 owns a root folder, and
\* the last call listed one folder only, the root folder of u1
C19_Witness ==
    /\ last.op = "getFoldersByUserId"
    /\ last.kind = "ok"
    /\ \E f, g, h \in folders :
          /\ f.userId = "u1" /\ f.parentFolderId = Null
          /\ g.userId = "u1" /\ g.parentFolderId = f.id
          /\ h.userId = "u2" /\ h.parentFolderId = Null
          /\ last.val = {f}

\* C20: postUpload creates file rows only after every upload of the request
\* has succeeded: the file table changes only in the createFiles call of a
\* request whose uploads have all resolved, with one result per posted file,
\* and the rows inserted are rows of those results; when an upload fails the
\* request ends or goes on without ever calling createFiles, and no step of
\* it changes the file table.
C20_RowsOnlyAfterEveryUploadSucceeded ==
    [][/\ (files' # files \/ last'.op = "createFiles")
          => \E p \in ProcIds :
                /\ procs'[p] # procs[p]
                /\ last'.op = "createFiles"
                /\ procs[p].op = "postUpload"
                /\ procs[p].pc = "uploading"
                /\ procs[p].ids = {}
                /\ Cardinality(procs[p].batch) = Len(procs[p].args)
                /\ \A b \in procs[p].batch : b.public_id \in blobs
                /\ \A f \in files' \ files : \E b \in procs[p].batch : f.cloudId = b.public_id
       /\ \A p \in ProcIds :
             (/\ procs'[p] # procs[p]
              /\ \/ procs[p].pc = "rejected"
                 \/ last' = Result("postUpload", "Error", "cloudinary", 0, <<>>))
             => /\ files' = files
                /\ last'.op # "createFiles"
                /\ procs'[p].pc \in {"rejected", "idle"}]_vars

\* an upload of the request has failed after another one had stored its blob,
\* and no row exists for that blob
C20_Witness ==
    \E p \in ProcIds :
        /\ procs[p].pc = "rejected"
        /\ procs[p].batch # {}
        /\ \A b \in procs[p].batch :
              b.public_id \in blobs /\ ~ \E f \in files : f.cloudId = b.public_id

\* C21: the engines keep the error kinds apart: a store call that fails to
\* connect or times out, in any engine operation, and a blob call that
\* fails, in either delete, end the operation with DatabaseError; a create
\* refused by the unique index ends with the Conflict kind.
C21_FailuresKeepTheirKind ==
    [][/\ \A op \in EngineOps, code \in StoreFaultCodes :
             (last'.op = op /\ PrismaCallRejects(op, code)) => last'.kind = "DatabaseError"
       /\ \A p \in ProcIds :
             /\ (procs[p].pc # "idle" /\ procs'[p].pc = "idle"
                 /\ \E code \in StoreFaultCodes : DeleteRowRejects(p, code))
                => last'.kind = "DatabaseError"
             /\ (procs[p].pc = "fetched" /\ procs'[p].pc = "idle"
                 /\ (DeleteFolderBlobsFail(p) \/ DeleteFileBlobFail(p)))
                => last'.kind = "DatabaseError"
       /\ \A parent \in {Null} \cup FolderIds :
             (/\ last'.op = "createFolder"
              /\ FolderUniqueViolation(folders, nextFolderId, nA, "u1", parent)
              /\ CreateFolder("u1", nA, parent))
             => IsConflict(last')]_vars

\* C22: after any sequence of createUser calls, interleaved ones included, no
\* two user rows share a username or an e-mail address; a call whose insert
\* meets a row that took its username or address in the meantime ends with
\* ValidationError and inserts nothing.
C22_UsernameAndEmailUnique ==
    [][/\ \A i, j \in 1..Len(users') :
             (users'[i].username = users'[j].username \/ users'[i].email = users'[j].email)
             => i = j
       /\ \A p \in UserProcIds :
             (/\ procs[p].pc = "usernameChecked"
              /\ procs'[p].pc = "idle"
              /\ UserUniqueViolation(users, procs[p].args[2], procs[p].args[1]))
             => /\ last'.kind = "ValidationError"
                /\ users' = users]_vars

\* a request passed both pre-checks and then lost the insert to the other one
C22_Witness ==
    /\ last.op = "createUser"
    /\ IsConflict(last)
    /\ Len(users) = 1
    /\ users[1].email = last.args[1] \/ users[1].username = last.args[2]

\* C23: createFiles skips a descriptor only when a file row with the same
\* blob id is already stored: every descriptor of the batch whose blob id is
\* new gets a row, and the count returned is the number of new blob ids in
\* the batch, whatever filenames the target folder holds.
C23_SkipsOnlyKnownBlobIds ==
    [][(last'.op = "createFiles" /\ last'.kind = "ok")
       => LET ups == last'.args[1]
              newIds == {ups[i].public_id : i \in 1..Len(ups)} \ {f.cloudId : f \in files}
          IN  /\ \A c \in newIds : \E f \in files' : f.cloudId = c
              /\ last'.val = Cardinality(newIds)]_vars

\* C24: a rename-file, delete-file, rename-folder or delete-folder request
\* whose currentPath is not empty and resolves to no folder of the user ends
\* with NotFound and changes no row, no blob and no request state.
C24_UnresolvedPathIsNotFound ==
    [][\A path \in CurrentPaths \ {<<>>} :
          (/\ GetFolderByPathResults(folders, "u1", path) = {Null}
           /\ \/ \E n \in {nX, nSlash} : PostRenameFile("u1", path, nX, n)
              \/ \E n \in {nA, nSlash} : PostRenameFolder("u1", path, nA, n)
              \/ \E p \in ProcIds : PostDeleteFile(p, "u1", path, nX)
              \/ \E p \in ProcIds : PostDeleteFolder(p, "u1", path, nA))
          => /\ last'.kind = "NotFoundError"
             /\ UNCHANGED <<folders, files, blobs, procs>>]_vars

\* the step removes or rewrites a folder or file row that user v owns, or
\* removes the blob of a file row that v owns
Touches(v) ==
    \/ \E f \in folders : f.userId = v /\ f \notin folders'
    \/ \E f \in files : f.userId = v /\ f \notin files'
    \/ \E f \in files : f.userId = v /\ f.cloudId \in blobs /\ f.cloudId \notin blobs'

\* the step is a rename called with userId v, or a step of a delete called
\* with userId v
RenameOrDeleteBy(v) ==
    \/ /\ last'.op = "renameFolderById"
       /\ \E id \in FolderIds : RenameFolderById(id, v, nB)
    \/ /\ last'.op = "renameFileById"
       /\ \E id \in FileIds : RenameFileById(v, id, nY)
    \/ \E p \in ProcIds :
          /\ procs[p].op \in {"deleteFolderById", "deleteFileById"}
          /\ procs[p].userId = v
          /\ procs'[p] # procs[p]

\* every folder and file row lies at root or in a folder of its own user
Segregated ==
    /\ \A f \in folders :
          f.parentFolderId # Null
          => \A g \in folders : g.id = f.parentFolderId => g.userId = f.userId
    /\ \A f \in files :
          f.folderId # Null => \A g \in folders : g.id = f.folderId => g.userId = f.userId

C26_NoBlobOfCascadedRowRemains ==
    [][\A p \in ProcIds :
          (/\ procs[p].op = "deleteFolderById"
           /\ procs'[p].pc = "idle"
           /\ last'.op = "deleteFolderById"
           /\ last'.kind = "ok")
          => \A f \in files \ files' : f.cloudId \notin blobs']_vars

\* C27: when two deleteFileById calls for the same file and user interleave,
\* each call ends in success or in NotFoundError, and when a call has ended
\* past its lookup neither the file row nor its blob is left.
C27_BothDeletesEndInSuccessOrNotFound ==
    [][\A p \in ControllerProcIds :
          (/\ procs[p].op = "deleteFileById"
           /\ procs[p].pc # "idle"
           /\ procs'[p].pc = "idle")
          => /\ last'.kind \in {"ok", "NotFoundError"}
             /\ ~ \E f \in files' : f.id = procs[p].id
             /\ procs[p].ids \cap blobs' = {}]_vars

\* the path of a folder row among rows: the names of its ancestors and its
\* own name, from root down, joined with "/"
RECURSIVE PathOf(_, _)
PathOf(rows, f) ==
    IF f.parentFolderId = Null
    THEN f.name
    ELSE LET parent == CHOOSE g \in rows : g.id = f.parentFolderId
         IN  PathOf(rows, parent) \o <<"/">> \o f.name

\* no two root folders of one user carry the same name
RootNamesUnique(rows) ==
    \A f, g \in rows :
        (f.parentFolderId = Null /\ g.parentFolderId = Null /\ f.userId = g.userId
         /\ f.name = g.name) => f = g

C29_CreatedFolderIsResolvable ==
    [][(last'.op = "createFolder" /\ last'.kind = "ok")
       => \A f \in folders' \ folders :
             f.id \in GetFolderByPathResults(folders', f.userId, PathOf(folders', f))]_vars

\* C30: in every state reached by create, rename and delete operations every
\* parentFolderId and every folderId that is not null is the id of a folder
\* row: a folder delete leaves no row that refers to a removed folder.
C30_ReferencesResolve ==
    /\ \A f \in folders :
          f.parentFolderId # Null => \E g \in folders : g.id = f.parentFolderId
    /\ \A f \in files :
          f.folderId # Null => \E g \in folders : g.id = f.folderId

\* a folder delete has just succeeded, folders are left, and the one file row
\* ever made is gone: no operation but the cascade removes a file row here
C30_Witness ==
    /\ last.op = "deleteFolderById"
    /\ last.kind = "ok"
    /\ folders # {}
    /\ nextFileId = 2
    /\ files = {}
====
